---- MODULE Spec2Model ----
(***************************************************************************)
(* Verification model of vohiyo's live-data backbone:                      *)
(*   - resolver::ResolverMap / ResolverEntry / Fut (the resolution cache)  *)
(*     as used by the domain caches UserMap, GameMap and ImageCache;       *)
(*   - twitch::run / Client / Writer / Events (the protocol connection     *)
(*     task and its two queues).                                           *)
(* SpecResolver drives the cache, SpecClient drives the connection task.   *)
(***************************************************************************)
EXTENDS Integers, Sequences, FiniteSets, TLC

(***************************************************************************)
(* Bounds                                                                  *)
(***************************************************************************)
NumKeys == 2
NumVals == 1
MaxHandles == 2
NumChans == 1
MaxWriteQ == 2
MaxEventQ == 2
MaxSilent == 75
MaxSends == 2
NumIds == 2
MaxActQ == 1
MaxUpdQ == 2
MaxAge == 2000
MaxQuiet == 30500
MaxQuery == 210
NumReqs == 2
MaxTries == 3
MaxIssued == 3
MaxUptime == 75000
MaxHashes == 2
NumAppChans == 2

Chans == 1..NumChans
Keys == 1..NumKeys
Vals == 1..NumVals
NoKey == 0
Sends == 1..MaxSends
MsgIds == 1..NumIds
NoId == 0

VARIABLES
    map,        \* ResolverMap.map : key -> Absent | NotReady | Ready(v)
    pending,    \* ResolverMap.pending : Vec<Fut<T>>
    nextId,     \* number of handles created so far (handle identity)
    delivered,  \* history: handle id -> number of times resolve was invoked
    epochFetch, \* history: key -> make_fetch calls since the key entered the map
    emptied,    \* history: key -> a fetch spawned for it was polled with no value
    last        \* history: the last cache operation and what it did

resolverVars == <<map, pending, nextId, delivered, epochFetch, emptied, last>>

VARIABLES
    pc,              \* position of the connection task inside twitch::run
    signal,          \* Client.signal / the oneshot start signal
    clientAlive,     \* the Client (its Events receiver and its Writer) exists
    credsValid,      \* whether the server accepts Config.token
    active_channels, \* run: active_channels
    writeQ,          \* the WriteKind channel, Writer.send -> run's `write`
    eventQ,          \* the Event channel, run's `read` -> Events.recv
    status,          \* Client.status
    identity,        \* the application's Option<Identity> is Some
    our_name,        \* run: our_name is Some
    srv,             \* what the server has sent on the current connection
    joined,          \* channels the current connection has written a JOIN for
    idle,            \* seconds the current select has been waiting
    silent,          \* seconds since the PingTracker was last updated
    timer,           \* seconds the reconnect sleep lasts
    uptime,          \* start.elapsed(): milliseconds since the connection was established
    written,         \* history: lines written to the socket by the last step
    inserted,        \* history: the records the last step inserted into the history store
    rej,             \* history: the last status event sent, and the events sent since the
                     \* server rejected the login
    inbound,         \* history: the inbound line this step sent an event for
    app_last,        \* App.last : the pending local echo
    nsent,           \* number of chat messages the user has sent
    transcript,      \* the messages pushed to the channel's message list
    fin              \* history: per sent message, the Finished results returned

clientVars == <<pc, signal, clientAlive, credsValid, active_channels, writeQ, eventQ,
                status, identity, our_name, srv, joined, idle, silent, uptime, timer,
                written, inserted, rej, inbound, app_last, nsent, transcript, fin>>

VARIABLES
    watching,   \* StreamCheck.watching -> poll_helix's `recv` : Action<String> channel
    update,     \* poll_helix's `send` -> StreamCheck.update : (id, Option<Stream>) channel
    events,     \* StreamCheck.send -> StreamCheck.events : Action<StreamStatus> channel
    set,        \* poll_helix: set, the watch-set
    queue,      \* poll_helix: queue, the pending batch
    burst,      \* milliseconds the current timeout(BURST_WINDOW, ..) has run
    nap,        \* milliseconds the current sleep(STREAM_CHECK_DURATION) has run
    req,        \* history: the last batched fetch and its answer
    batch,      \* history: timing of the pending batch
    quiet,      \* history: milliseconds without an action or a fetch, watch-set not empty
    answered    \* history: keys that were asked for in a fetch that did not fail

streamVars == <<watching, update, events, set, queue, burst, nap, req, batch, quiet, answered>>

VARIABLES
    query,      \* get_many_inner: number of items of `query` (the items are 1..query)
    subs,       \* get_many_inner: the sub-requests spawned on the JoinSet
    out,        \* get_many_inner: `out`, the sub-requests joined so far, in join order
    mpc         \* position of get_many_inner's future

manyVars == <<query, subs, out, mpc>>

VARIABLES
    bearer_token, \* Client.bearer_token: 0 for None, else the number of the cached token
    issued,       \* number of tokens get_oauth has returned
    rpc,          \* per request: position inside get_response
    held,         \* per request: the token its current attempt carries
    tries         \* history: per request, how often it was sent

authVars == <<bearer_token, issued, rpc, held, tries>>

helixVars == <<manyVars, authVars>>

VARIABLES
    screen,     \* ReadyApp.screen
    shown,      \* the view the last frame displayed
    channels,   \* ReadyApp.state.channels, by name
    loaded,     \* Loaded.channels: the channels in the list at start-up
    stored,     \* history: per sent message, the records db::History::insert stored
    acks,       \* history: channels whose Join event the application has polled
    disorder,   \* history: a chat message was polled before its channel's Join event
    fatal       \* handle_message panicked

appVars == <<screen, shown, channels, loaded, stored, acks, disorder, fatal>>

vars == <<resolverVars, clientVars, streamVars, helixVars, appVars>>

\* everything but the cache, the connection, the stream check, the helix client
offCache == <<clientVars, streamVars, helixVars, appVars>>
offClient == <<resolverVars, streamVars, helixVars, appVars>>
offStream == <<clientVars, helixVars, appVars>>
offHelix == <<resolverVars, clientVars, streamVars, appVars>>

(***************************************************************************)
(* resolver::Ready                                                         *)
(***************************************************************************)
Absent == [st |-> "Absent", v |-> 0]
NotReady == [st |-> "NotReady", v |-> 0]
Ready(v) == [st |-> "Ready", v |-> v]

None == [some |-> FALSE, key |-> 0, val |-> 0]
Some(k, v) == [some |-> TRUE, key |-> k, val |-> v]

is_ready(r) == r.st = "Ready"

as_option(r) == IF r.st = "Ready" THEN Some(0, r.v) ELSE None

contains(m, k) == m[k].st # "Absent"

try_get(m, k) == IF contains(m, k) THEN as_option(m[k]) ELSE None

(***************************************************************************)
(* resolver::Fut : a oneshot receiver.  chan is Empty while the task runs, *)
(* Sent once the task has sent its result, Closed when the sender was      *)
(* dropped without a send.                                                 *)
(***************************************************************************)
NewFut(id, k) == [key |-> k, id |-> id, chan |-> "Empty", res |-> None]

try_resolve(h) == IF h.chan = "Sent" THEN [some |-> TRUE, res |-> h.res]
                  ELSE [some |-> FALSE, res |-> None]

(***************************************************************************)
(* resolver::ResolverEntry                                                 *)
(***************************************************************************)
EntrySet(m, k, v) == [m EXCEPT ![k] = Ready(v)]

EntryRemove(m, k) == [m EXCEPT ![k] = Absent]

(***************************************************************************)
(* The resolve callback of the domain caches: a record is stored under     *)
(* the key the record carries, an empty result changes nothing.            *)
(***************************************************************************)
Resolve(m, res) == IF res.some THEN EntrySet(m, res.key, res.val) ELSE m

(***************************************************************************)
(* ResolverMap::poll : pending.retain_mut(...), front to back.             *)
(***************************************************************************)
RECURSIVE PollFrom(_, _, _, _, _, _)
PollFrom(i, pend, m, keep, dl, em) ==
    IF i > Len(pend) THEN [map |-> m, pending |-> keep, delivered |-> dl, emptied |-> em]
    ELSE LET h == pend[i]
             r == try_resolve(h)
         IN IF ~r.some
            THEN PollFrom(i + 1, pend, m, Append(keep, h), dl, em)
            ELSE PollFrom(i + 1, pend, Resolve(m, r.res), keep,
                          [dl EXCEPT ![h.id] = @ + 1],
                          IF ~r.res.some /\ h.key # NoKey
                          THEN [em EXCEPT ![h.key] = TRUE] ELSE em)

PollResult_bad(pend, m, dl, em) ==
    LET r == PollFrom(1, pend, m, <<>>, dl, em)
    IN [r EXCEPT !.pending = pend]

PollResult(pend, m, dl, em) == PollFrom(1, pend, m, <<>>, dl, em)

(***************************************************************************)
(* ResolverMap::get_or_update / get_or_else : the raw-entry match.         *)
(***************************************************************************)
get_or_update_bad(m, pend, k, id) ==
    IF contains(m, k) /\ is_ready(m[k])
    THEN [map |-> m, pending |-> pend, ret |-> as_option(m[k]), spawned |-> FALSE]
    ELSE [map |-> [m EXCEPT ![k] = NotReady],
          pending |-> Append(pend, NewFut(id, k)), ret |-> None, spawned |-> TRUE]

get_or_update(m, pend, k, id) ==
    IF contains(m, k)
    THEN [map |-> m, pending |-> pend, ret |-> as_option(m[k]), spawned |-> FALSE]
    ELSE [map |-> [m EXCEPT ![k] = NotReady],
          pending |-> Append(pend, NewFut(id, k)), ret |-> None, spawned |-> TRUE]

get_or_else_bad(m, k) ==
    [map |-> [m EXCEPT ![k] = NotReady], ret |-> None, called |-> TRUE]

get_or_else(m, k) ==
    IF contains(m, k)
    THEN [map |-> m, ret |-> as_option(m[k]), called |-> FALSE]
    ELSE [map |-> [m EXCEPT ![k] = NotReady], ret |-> None, called |-> TRUE]

(***************************************************************************)
(* ResolverMap::retain with a predicate that keeps the keys of a set.      *)
(***************************************************************************)
retain(m, keep) == [k \in Keys |-> IF k \in keep THEN m[k] ELSE Absent]

(***************************************************************************)
(* twitch: the protocol connection task (twitch::run), its queues and the  *)
(* Client that owns them.  Durations are in seconds.                       *)
(***************************************************************************)
RECONNECT == 5
ping_timeout == 30

\* time advances in steps of half a keepalive interval
Quantum == ping_timeout \div 2

\* twitch::writer::WriteKind
WJoin(c) == [chan |-> c, kind |-> "Join"]
WPart(c) == [chan |-> c, kind |-> "Part"]
WPrivmsg(c) == [chan |-> c, kind |-> "Privmsg"]

\* twitch::events::Event
Ev(kind, c, d) == [id |-> NoId, chan |-> c, kind |-> kind, dur |-> d]
EvConnecting == Ev("Connecting", 0, 0)
EvConnected == Ev("Connected", 0, 0)
EvReconnecting(d) == Ev("Reconnecting", 0, d)

\* lines written to the socket (twitch_message::encode)
Line(cmd, c) == [chan |-> c, cmd |-> cmd]

\* inbound lines as twitch_message::parse classifies them; Garbage does not parse
Frame(kind, c, mine) == [id |-> NoId, chan |-> c, kind |-> kind, mine |-> mine]

\* a USERSTATE line that carries an `id` tag
UserStateId(c, i) == [Frame("UserState", c, FALSE) EXCEPT !.id = i]

NoFrame == Frame("None", 0, FALSE)

Frames ==
    {Frame(k, 0, FALSE) : k \in {"Ready", "Notice", "GlobalUserState", "Ping", "Pong",
                                  "Other", "Garbage"}}
    \cup {Frame(k, c, FALSE) : k \in {"Privmsg", "RoomState", "UserState"}, c \in Chans}
    \cup {Frame("Join", c, m) : c \in Chans, m \in BOOLEAN}

\* tokio mpsc, the receiving end: run's `write.recv()` / `write.try_recv()`
\* and Events::poll's `recv.try_recv()` on a queue that is not empty
write_recv_bad(q) == [msg |-> q[Len(q)], rest |-> SubSeq(q, 1, Len(q) - 1)]

write_recv(q) == [msg |-> Head(q), rest |-> Tail(q)]

events_poll_bad(q) == [ev |-> q[Len(q)], rest |-> SubSeq(q, 1, Len(q) - 1)]

events_poll(q) == [ev |-> Head(q), rest |-> Tail(q)]

\* Duration::as_secs of a duration in milliseconds: whole seconds
as_secs_bad(ms) == ms

as_secs(ms) == ms \div 1000

\* twitch_message::encode::ping(token)
Ping(token) == [chan |-> token, cmd |-> "PING"]

\* twitch_message::PingTracker, threshold = ping_timeout * 2
pt_update(f) == 0

should_pong(f) == f.kind = "Ping"

probably_timed_out(s) == s >= ping_timeout * 2

\* the enumerations of a HashSet: every order of its members
Orders(S) == {q \in [1..Cardinality(S) -> S] : \A i, j \in 1..Cardinality(S) : q[i] = q[j] => i = j}

JoinLines(q) == [i \in DOMAIN q |-> Line("JOIN", q[i])]

\* the lines the server can send next on the current connection: the welcome
\* (or the rejection) answers the registration, GLOBALUSERSTATE follows the
\* welcome, channel traffic follows a JOIN written on this connection
ServerFrames ==
    (IF srv = "fresh" /\ credsValid THEN {Frame("Ready", 0, FALSE)} ELSE {})
    \cup (IF srv = "fresh" /\ ~credsValid THEN {Frame("Notice", 0, FALSE)} ELSE {})
    \cup (IF srv = "welcomed" THEN {Frame("GlobalUserState", 0, FALSE)} ELSE {})
    \cup (IF srv = "registered"
          THEN {Frame(k, c, FALSE) : k \in {"Privmsg", "RoomState", "UserState"}, c \in joined}
               \cup {UserStateId(c, i) : c \in joined, i \in MsgIds}
               \cup {Frame("Join", c, m) : c \in joined, m \in BOOLEAN}
               \cup {Frame("Pong", 0, FALSE)}
          ELSE {})
    \cup (IF srv # "rejected"
          THEN {Frame("Ping", 0, FALSE), Frame("Other", 0, FALSE), Frame("Garbage", 0, FALSE)}
          ELSE {})

ServerAfter(f) ==
    CASE f.kind = "Ready" -> "welcomed"
      [] f.kind = "Notice" -> "rejected"
      [] f.kind = "GlobalUserState" -> "registered"
      [] OTHER -> srv

\* run: the event the frame dispatch sends for a frame, if any
HasEvent(f, name) ==
    \/ f.kind \in {"Privmsg", "RoomState", "UserState"}
    \/ f.kind = "Join" /\ f.mine /\ name

EventOf(f) ==
    CASE f.kind = "Privmsg" -> Ev("Privmsg", f.chan, 0)
      [] f.kind = "Join" -> Ev("Join", f.chan, 0)
      [] f.kind = "RoomState" -> Ev("ChannelId", f.chan, 0)
      [] f.kind = "UserState" -> [Ev("UserState", f.chan, 0) EXCEPT !.id = f.id]

\* run: the reconnect! macro, entered with event queue q
reconnect_bad(alive, q) ==
    IF ~alive THEN [pc |-> "Done", eventQ |-> q, timer |-> 0]
    ELSE [pc |-> "Drain", eventQ |-> q, timer |-> 0]

reconnect(alive, q) ==
    IF ~alive THEN [pc |-> "Done", eventQ |-> q, timer |-> 0]
    ELSE [pc |-> "Sleep", eventQ |-> Append(q, EvReconnecting(RECONNECT)), timer |-> RECONNECT]

\* App.last, an Option<(PrivmsgBuilder, TagsBuilder)>: the n-th message the
\* user sent and the channel it was sent to
NoMsg == [chan |-> 0, n |-> 0]
Pending(n, c) == [chan |-> c, n |-> n]

\* Option::replace and Option::take on App.last
last_replace_bad(slot, new) == IF slot = NoMsg THEN new ELSE slot

last_replace(slot, new) == new

last_take_bad(slot) == [val |-> slot, rest |-> slot]

last_take(slot) == [val |-> slot, rest |-> NoMsg]

\* a message pushed to the channel's list: the n-th sent message, rendered
\* as local, with the id it carries
Local(n, c) == [id |-> NoId, chan |-> c, n |-> n, local |-> TRUE]

\* history: how often a sent message came back as Message::Finished, and the
\* channel and message id the last of those carried
NoFinished == [id |-> NoId, chan |-> 0, count |-> 0]

StatusKinds == {"Connecting", "Connected", "Reconnecting"}

IsStatus(e) == e.kind \in StatusKinds

\* the events a step adds to the queue when it leaves it as q2
NewEvents(q2) == SubSeq(q2, Len(eventQ) + 1, Len(q2))

\* the last status event among h and the events sent after it
LastStatus(h, new) ==
    LET st == SelectSeq(new, IsStatus)
    IN IF st = <<>> THEN h ELSE st[Len(st)].kind

\* history: the last status event sent, and the kinds of the events sent
\* since the server rejected the login
Emitted(q2) ==
    [status |-> LastStatus(rej.status, NewEvents(q2)),
     rejected |-> rej.rejected,
     since |-> IF rej.rejected
               THEN rej.since \cup {q2[i].kind : i \in (Len(eventQ) + 1)..Len(q2)}
               ELSE rej.since]

\* twitch::Client::create, with the commands then handed to its Writer
InitTwitch(q) ==
    /\ pc = "WaitSignal"
    /\ signal = "Unsent"
    /\ clientAlive = TRUE
    /\ credsValid \in BOOLEAN
    /\ active_channels = {}
    /\ writeQ = q
    /\ eventQ = <<>>
    /\ status = "NotConnected"
    /\ identity = FALSE
    /\ our_name = FALSE
    /\ srv = "none"
    /\ joined = {}
    /\ idle = 0
    /\ silent = 0
    /\ uptime = 0
    /\ timer = 0
    /\ written = <<>>
    /\ rej = [status |-> "None", rejected |-> FALSE, since |-> {}]
    /\ inbound = NoFrame
    /\ app_last = NoMsg
    /\ nsent = 0
    /\ transcript = <<>>
    /\ fin = [n \in Sends |-> NoFinished]

\* ReadyApp::create, with the channels loaded from the saved state
InitReady(l) ==
    /\ screen = "Disconnected"
    /\ shown = "none"
    /\ channels = l
    /\ loaded = l
    /\ stored = [n \in Sends |-> 0]
    /\ inserted = <<>>
    /\ acks = {}
    /\ disorder = FALSE
    /\ fatal = FALSE

InitClient ==
    /\ InitTwitch(<<>>)
    /\ InitReady({})

(***************************************************************************)
(* helix::Client : get_many_inner (batched lookups) and get_response (the  *)
(* authenticated request)                                                  *)
(***************************************************************************)
\* get_many_inner: query.chunks(100)
CHUNK == 100

Min(a, b) == IF a <= b THEN a ELSE b

\* slice::chunks over the items lo..n: consecutive pieces of `size` items,
\* the last one shorter when the items do not divide evenly
chunk_bad(lo, n, size) == [lo |-> lo, hi |-> lo + size - 1]

chunk(lo, n, size) == [lo |-> lo, hi |-> Min(lo + size - 1, n)]

RECURSIVE chunks(_, _, _)
chunks(lo, n, size) ==
    IF lo > n THEN <<>>
    ELSE <<chunk(lo, n, size)>> \o chunks(lo + size, n, size)

\* what a sub-request yields after `.ok().unwrap_or_default()`: a record for
\* every item, for the even items only, or nothing (no record, or an error)
Yields == {"all", "even", "none"}

Records(c, y) ==
    CASE y = "all" -> c.lo..c.hi
      [] y = "even" -> {k \in c.lo..c.hi : k % 2 = 0}
      [] OTHER -> {}

Sub(c) == [st |-> "running", lo |-> c.lo, hi |-> c.hi, yield |-> "none"]

\* the items of `out` after the sub-requests listed in o were joined
RECURSIVE Extend(_, _)
Extend(o, sb) ==
    IF o = <<>> THEN {}
    ELSE Records(sb[Head(o)], sb[Head(o)].yield) \cup Extend(Tail(o), sb)

Reqs == 1..NumReqs
NoToken == 0

InitHelix ==
    /\ query = 0
    /\ subs = <<>>
    /\ out = <<>>
    /\ mpc = "idle"
    /\ bearer_token = NoToken
    /\ issued = 0
    /\ rpc = [r \in Reqs |-> "idle"]
    /\ held = [r \in Reqs |-> NoToken]
    /\ tries = [r \in Reqs |-> 0]

(***************************************************************************)
(* runtime::StreamCheck and its background loop poll_helix.  Durations are *)
(* in milliseconds.  The cache is StreamCheck.map, a ResolverMap whose     *)
(* values are Option<Stream>.                                              *)
(***************************************************************************)
STREAM_CHECK_DURATION == 30000
BURST_WINDOW == 1000

\* time advances in steps of half a burst window
Step == BURST_WINDOW \div 2

\* Option<helix::data::Stream>: no stream (offline), or the stream of the user
NoStream == 0
Live == 1

\* runtime::stream_check::Action
Added(k) == [key |-> k, act |-> "Added"]
Removed(k) == [key |-> k, act |-> "Removed"]

\* an (id, stream) pair on the update channel
Upd(k, v) == [key |-> k, stream |-> v]

Range(q) == {q[i] : i \in DOMAIN q}

\* what helix.get_many_streams(R).wait() yields: the streams of the users of
\* R that are live; nothing at all when a sub-request failed (its error is
\* replaced by an empty list); None when the fetch task ended without a result
Answers(R) ==
    {[kind |-> "ok", live |-> S] : S \in SUBSET R}
    \cup {[kind |-> "error", live |-> {}], [kind |-> "closed", live |-> {}]}

\* batch_send!: delta starts as the requested keys and loses every key a
\* stream was returned for
delta_bad(R, S) == R

delta(R, S) == R \ S

\* batch_send!: (id, Some(stream)) for every stream in the order they were
\* returned, then (id, None) for the keys left in delta, in its iteration order
BatchUpdates(R, a) ==
    {[i \in DOMAIN so |-> Upd(so[i], Live)] \o [i \in DOMAIN dl |-> Upd(dl[i], NoStream)] :
        so \in Orders(a.live), dl \in Orders(delta(R, a.live))}

\* StreamCheck::update
StreamUpdate(m, ev, u) ==
    [map |-> EntrySet(m, u.key, u.stream),
     events |-> Append(ev, IF u.stream = NoStream THEN Removed(u.key) ELSE Added(u.key))]

\* StreamCheck::poll: `while let Ok((id, stream)) = self.update.try_recv()`
RECURSIVE UpdateAll(_, _, _)
UpdateAll(us, m, ev) ==
    IF us = <<>> THEN [map |-> m, events |-> ev]
    ELSE LET r == StreamUpdate(m, ev, Head(us))
         IN UpdateAll(Tail(us), r.map, r.events)

NoReq == [keys |-> {}, full |-> FALSE, ans |-> [kind |-> "ok", live |-> {}], seq |-> 0]

\* history: age is the time since the first key entered the pending batch,
\* gap the time between the first and the second key, clean whether nothing
\* but new keys arrived since the first one
NoBatch == [age |-> 0, gap |-> 0, clean |-> TRUE]

InitStream ==
    /\ watching = <<>>
    /\ update = <<>>
    /\ events = <<>>
    /\ set = {}
    /\ queue = <<>>
    /\ burst = 0
    /\ nap = 0
    /\ req = NoReq
    /\ batch = NoBatch
    /\ quiet = 0
    /\ answered = {}

(***************************************************************************)
(* Initial state: ResolverMap::new()                                       *)
(***************************************************************************)
\* seq flips on every call, so that a call is a step even when it changes nothing
Op(op, k, ret, spawned) ==
    [key |-> k, ret |-> ret, spawned |-> spawned, seq |-> 1 - last.seq, op |-> op]

\* history bookkeeping: a key that leaves the map starts a new epoch
Epoch(m2, ef) == [k \in Keys |-> IF contains(m2, k) THEN ef[k] ELSE 0]
Emptied(m2, em) == [k \in Keys |-> contains(m2, k) /\ em[k]]

InitResolver ==
    /\ map = [k \in Keys |-> Absent]
    /\ pending = <<>>
    /\ nextId = 0
    /\ delivered = [i \in 1..MaxHandles |-> 0]
    /\ epochFetch = [k \in Keys |-> 0]
    /\ emptied = [k \in Keys |-> FALSE]
    /\ last = [key |-> NoKey, ret |-> None, spawned |-> FALSE, seq |-> 0, op |-> "new"]

\* UserMap::get / GameMap::get / ImageCache::get_image
GetOrUpdate(k) ==
    LET r == get_or_update(map, pending, k, nextId + 1)
    IN /\ r.spawned => nextId < MaxHandles
       /\ map' = r.map
       /\ pending' = r.pending
       /\ nextId' = IF r.spawned THEN nextId + 1 ELSE nextId
       /\ epochFetch' = IF r.spawned THEN [epochFetch EXCEPT ![k] = @ + 1] ELSE epochFetch
       /\ emptied' = IF r.spawned THEN [emptied EXCEPT ![k] = FALSE] ELSE emptied
       /\ last' = Op("get_or_update", k, r.ret, r.spawned)
       /\ UNCHANGED <<delivered, offCache>>

\* StreamCheck::get_or_subscribe
GetOrElse(k) ==
    LET r == get_or_else(map, k)
    IN /\ map' = r.map
       /\ last' = Op("get_or_else", k, r.ret, r.called)
       /\ UNCHANGED <<pending, nextId, delivered, epochFetch, emptied, offCache>>

\* ResolverMap::add : a fetch that is not tied to one key
Add ==
    /\ nextId < MaxHandles
    /\ pending' = Append(pending, NewFut(nextId + 1, NoKey))
    /\ nextId' = nextId + 1
    /\ last' = Op("add", NoKey, None, TRUE)
    /\ UNCHANGED <<map, delivered, epochFetch, emptied, offCache>>

\* UserMap::poll / GameMap::poll / ImageCache::poll
Poll ==
    LET r == PollResult(pending, map, delivered, emptied)
    IN /\ map' = r.map
       /\ pending' = r.pending
       /\ delivered' = r.delivered
       /\ emptied' = r.emptied
       /\ last' = Op("poll", NoKey, None, FALSE)
       /\ UNCHANGED <<nextId, epochFetch, offCache>>

\* ImageCache::set : ResolverMap::update().set(key, value)
Set(k, v) ==
    /\ map' = EntrySet(map, k, v)
    /\ last' = Op("set", k, None, FALSE)
    /\ UNCHANGED <<pending, nextId, delivered, epochFetch, emptied, offCache>>

\* ResolverMap::update().remove(key)
Remove(k) ==
    /\ map' = EntryRemove(map, k)
    /\ epochFetch' = Epoch(map', epochFetch)
    /\ emptied' = Emptied(map', emptied)
    /\ last' = Op("remove", k, as_option(map[k]), FALSE)
    /\ UNCHANGED <<pending, nextId, delivered, offCache>>

\* ResolverMap::remove_by_key
RemoveByKey(k) ==
    /\ map' = [map EXCEPT ![k] = Absent]
    /\ epochFetch' = Epoch(map', epochFetch)
    /\ emptied' = Emptied(map', emptied)
    /\ last' = Op("remove_by_key", k, None, FALSE)
    /\ UNCHANGED <<pending, nextId, delivered, offCache>>

\* ResolverMap::retain
Retain(keep) ==
    /\ map' = retain(map, keep)
    /\ epochFetch' = Epoch(map', epochFetch)
    /\ emptied' = Emptied(map', emptied)
    /\ last' = Op("retain", NoKey, None, FALSE)
    /\ UNCHANGED <<pending, nextId, delivered, offCache>>

\* Fut::spawn's task: `let _ = tx.send(result)`
TaskSend(i, res) ==
    /\ i \in DOMAIN pending
    /\ pending[i].chan = "Empty"
    /\ pending' = [pending EXCEPT ![i] = [@ EXCEPT !.chan = "Sent", !.res = res]]
    /\ UNCHANGED <<map, nextId, delivered, epochFetch, emptied, last, offCache>>

\* ImageFetcher::get_image's task returning before tx.send: the sender is dropped
TaskDrop(i) ==
    /\ i \in DOMAIN pending
    /\ pending[i].chan = "Empty"
    /\ pending' = [pending EXCEPT ![i] = [@ EXCEPT !.chan = "Closed"]]
    /\ UNCHANGED <<map, nextId, delivered, epochFetch, emptied, last, offCache>>

Results == {None} \cup {Some(k, v) : k \in Keys, v \in Vals}

NextResolver ==
    \/ \E k \in Keys : GetOrUpdate(k)
    \/ \E k \in Keys : GetOrElse(k)
    \/ Add
    \/ Poll
    \/ \E k \in Keys, v \in Vals : Set(k, v)
    \/ \E k \in Keys : Remove(k)
    \/ \E k \in Keys : RemoveByKey(k)
    \/ \E keep \in SUBSET Keys : Retain(keep)
    \/ \E i \in 1..MaxHandles, res \in Results : TaskSend(i, res)
    \/ \E i \in 1..MaxHandles : TaskDrop(i)

\* the cache on its own: the connection task is never started
InitCache ==
    /\ InitResolver
    /\ InitHelix
    /\ InitClient
    /\ InitStream
    /\ credsValid = TRUE

SpecResolver == InitCache /\ [][NextResolver]_vars

\* the application calls poll on every frame
SpecResolverLive == InitCache /\ [][NextResolver]_vars /\ WF_vars(Poll)

(***************************************************************************)
(* runtime::UserMap : a ResolverMap keyed by login.  The strings passed to *)
(* it are a login with some leading '#'s; string n + NumKeys * h stands    *)
(* for login n behind h '#'s.                                              *)
(***************************************************************************)
Strings == 1..(NumKeys * (MaxHashes + 1))

\* "#" followed by s
Hash(s) == s + NumKeys

starts_with_hash(s) == s > NumKeys

\* str::strip_prefix('#').unwrap_or(s): one leading '#' is removed
strip_prefix_bad(s) == s

strip_prefix(s) == IF starts_with_hash(s) THEN s - NumKeys ELSE s

\* UserMap::get
UserMapGet(s) ==
    LET login == strip_prefix(s)
        r == get_or_update(map, pending, login, nextId + 1)
    IN /\ r.spawned => nextId < MaxHandles
       /\ map' = r.map
       /\ pending' = r.pending
       /\ nextId' = IF r.spawned THEN nextId + 1 ELSE nextId
       /\ epochFetch' = IF r.spawned THEN [epochFetch EXCEPT ![login] = @ + 1] ELSE epochFetch
       /\ emptied' = IF r.spawned THEN [emptied EXCEPT ![login] = FALSE] ELSE emptied
       /\ last' = Op("get", s, r.ret, r.spawned)
       /\ UNCHANGED <<delivered, offCache>>

\* helix get_user: no user, or the record of a user, which carries its login
UserResults == {None} \cup {Some(n, v) : n \in Keys, v \in Vals}

NextUserMap ==
    \/ \E s \in Strings : UserMapGet(s)
    \/ Poll
    \/ \E i \in 1..MaxHandles, res \in UserResults : TaskSend(i, res)
    \/ \E i \in 1..MaxHandles : TaskDrop(i)

\* UserMap::create
InitUserMap ==
    /\ map = [k \in Strings |-> Absent]
    /\ pending = <<>>
    /\ nextId = 0
    /\ delivered = [i \in 1..MaxHandles |-> 0]
    /\ epochFetch = [k \in Strings |-> 0]
    /\ emptied = [k \in Strings |-> FALSE]
    /\ last = [key |-> NoKey, ret |-> None, spawned |-> FALSE, seq |-> 0, op |-> "new"]
    /\ InitHelix
    /\ InitClient
    /\ InitStream
    /\ credsValid = TRUE

SpecUserMap == InitUserMap /\ [][NextUserMap]_vars

(***************************************************************************)
(* The application side: Client and Writer                                 *)
(***************************************************************************)
Fits(q) == Len(q) <= MaxEventQ

\* Client::connect: `if let Some(signal) = self.signal.take()` sends
\* Signal::Start; once the sender was taken a call does nothing
connect(sig) == IF sig = "Unsent" THEN "Start" ELSE sig

Connect ==
    /\ clientAlive
    /\ signal' = connect(signal)
    /\ UNCHANGED <<pc, clientAlive, credsValid, active_channels, writeQ, eventQ, status,
                   identity, our_name, srv, joined, idle, silent, uptime, timer, rej>>
    /\ inbound' = NoFrame
    /\ inserted' = <<>>
    /\ written' = <<>>
    /\ UNCHANGED <<app_last, nsent, transcript, fin>>
    /\ UNCHANGED offClient

\* the Client is dropped: the Events receiver, the Writer and the signal sender go
DropClient ==
    /\ clientAlive
    /\ clientAlive' = FALSE
    /\ signal' = IF signal = "Unsent" THEN "Dropped" ELSE signal
    /\ eventQ' = <<>>
    /\ UNCHANGED <<pc, credsValid, active_channels, writeQ, status, identity, our_name,
                   srv, joined, idle, silent, uptime, timer, rej>>
    /\ inbound' = NoFrame
    /\ inserted' = <<>>
    /\ written' = <<>>
    /\ UNCHANGED <<app_last, nsent, transcript, fin>>
    /\ UNCHANGED offClient

\* Writer::join / Writer::part / Writer::privmsg
Enqueue(w) ==
    /\ clientAlive
    /\ Len(writeQ) < MaxWriteQ
    /\ writeQ' = Append(writeQ, w)
    /\ UNCHANGED <<pc, signal, clientAlive, credsValid, active_channels, eventQ, status,
                   identity, our_name, srv, joined, idle, silent, uptime, timer, rej>>
    /\ inbound' = NoFrame
    /\ inserted' = <<>>
    /\ written' = <<>>
    /\ UNCHANGED <<app_last, nsent, transcript, fin>>
    /\ UNCHANGED offClient

WriterJoin(c) == Enqueue(WJoin(c))

WriterPart(c) == Enqueue(WPart(c))

WriterPrivmsg(c) == Enqueue(WPrivmsg(c))

\* MainView::display_tab_bar, Input::Send: the message is rendered as a local
\* message, becomes the pending local echo and is handed to the Writer
Send(c) ==
    /\ clientAlive
    /\ status # "Panicked"
    /\ identity
    /\ nsent < MaxSends
    /\ Len(writeQ) < MaxWriteQ
    /\ nsent' = nsent + 1
    /\ transcript' = Append(transcript, Local(nsent + 1, c))
    /\ app_last' = last_replace(app_last, Pending(nsent + 1, c))
    /\ writeQ' = Append(writeQ, WPrivmsg(c))
    /\ inbound' = NoFrame
    /\ inserted' = <<>>
    /\ written' = <<>>
    /\ UNCHANGED <<pc, signal, clientAlive, credsValid, active_channels, eventQ, status,
                   identity, our_name, srv, joined, idle, silent, uptime, timer, rej, fin>>
    /\ UNCHANGED offClient

\* twitch::Message, what Client::poll returns: for Finished, the n-th sent
\* message with the channel and the message id it carries; `via` is history,
\* the channel of the polled line
NoMessage == [id |-> NoId, chan |-> 0, kind |-> "None", n |-> 0, via |-> 0]
MsgJoin(c) == [id |-> NoId, chan |-> c, kind |-> "Join", n |-> 0, via |-> c]
MsgPrivmsg(c) == [id |-> NoId, chan |-> c, kind |-> "Privmsg", n |-> 0, via |-> c]

\* Client::poll, UserState arm: the pending builder gets the `id` tag of the
\* polled line and is finished; channel, sender and data are the builder's
finish_privmsg_bad(pend, e) ==
    [id |-> e.id, chan |-> e.chan, kind |-> "Finished", n |-> pend.n, via |-> e.chan]

finish_privmsg(pend, e) ==
    [id |-> e.id, chan |-> pend.chan, kind |-> "Finished", n |-> pend.n, via |-> e.chan]

\* Client::poll on a queue that holds an event.  The UserState arm returns
\* before `self.status` is assigned; its two `expect`s panic when no
\* identity is set, or when a local echo is pending and the line has no id
client_poll(q, st, idn, lst) ==
    LET e == events_poll(q).ev
        ok == idn /\ (lst = NoMsg \/ e.id # NoId)
    IN [rest |-> events_poll(q).rest,
        status |-> CASE e.kind = "Connecting" -> "Connecting"
                     [] e.kind = "Connected" -> "Connected"
                     [] e.kind = "Reconnecting" -> "Reconnecting"
                     [] e.kind = "UserState" /\ ~ok -> "Panicked"
                     [] OTHER -> st,
        identity |-> (idn \/ e.kind = "Connected"),
        last |-> IF e.kind = "UserState" /\ idn THEN last_take(lst).rest ELSE lst,
        msg |-> CASE e.kind = "UserState" /\ ok /\ lst # NoMsg ->
                        finish_privmsg(last_take(lst).val, e)
                  [] e.kind = "Join" -> MsgJoin(e.chan)
                  [] e.kind = "Privmsg" -> MsgPrivmsg(e.chan)
                  [] OTHER -> NoMessage]

\* history: the message came back as Finished
Returned(f, m) ==
    IF m.kind = "Finished"
    THEN [f EXCEPT ![m.n] = [id |-> m.id, chan |-> m.chan, count |-> @.count + 1]]
    ELSE f

\* Client::poll : one event taken from Events::poll
ClientPoll ==
    /\ clientAlive
    /\ status # "Panicked"
    /\ eventQ # <<>>
    /\ LET r == client_poll(eventQ, status, identity, app_last)
       IN /\ eventQ' = r.rest
          /\ status' = r.status
          /\ identity' = r.identity
          /\ app_last' = r.last
          /\ fin' = Returned(fin, r.msg)
    /\ inbound' = NoFrame
    /\ inserted' = <<>>
    /\ written' = <<>>
    /\ UNCHANGED <<pc, signal, clientAlive, credsValid, active_channels, writeQ, our_name,
                   srv, joined, idle, silent, uptime, timer, rej, nsent, transcript>>
    /\ UNCHANGED offClient

(***************************************************************************)
(* The connection task: twitch::run                                        *)
(***************************************************************************)
AppSide == <<signal, clientAlive, credsValid, status, identity, app_last, nsent, transcript, fin>>

\* the connection is given up: its per-connection state is gone
NoConn ==
    /\ our_name' = FALSE
    /\ srv' = "none"
    /\ joined' = {}
    /\ idle' = 0
    /\ silent' = 0
    /\ uptime' = 0

\* take the outcome of reconnect! (or of a failed send on the event queue)
Go(r) ==
    /\ Fits(r.eventQ)
    /\ pc' = r.pc
    /\ eventQ' = r.eventQ
    /\ timer' = r.timer
    /\ rej' = Emitted(r.eventQ)
    /\ NoConn

\* Client::create's `wait`: signal_rx.await.unwrap_or(Signal::Ignore); it is
\* pending until the sender has sent or was dropped
signal_await_bad(sig) == IF sig = "Dropped" THEN "Ignore" ELSE "Start"

signal_await(sig) ==
    CASE sig = "Start" -> "Start"
      [] sig = "Dropped" -> "Ignore"
      [] OTHER -> "Pending"

\* `signal.await` yields Signal::Start
StartSignal ==
    /\ pc = "WaitSignal"
    /\ signal_await(signal) = "Start"
    /\ pc' = "Drain"
    /\ UNCHANGED <<active_channels, writeQ, eventQ, our_name, srv, joined, idle, silent, uptime,
                   timer, written, inserted, rej>>
    /\ inbound' = NoFrame
    /\ UNCHANGED <<AppSide, offClient>>

\* the signal sender was dropped: Signal::Ignore, run returns
SignalIgnore ==
    /\ pc = "WaitSignal"
    /\ signal_await(signal) = "Ignore"
    /\ pc' = "Done"
    /\ UNCHANGED <<active_channels, writeQ, eventQ, our_name, srv, joined, idle, silent, uptime,
                   timer, written, inserted, rej>>
    /\ inbound' = NoFrame
    /\ UNCHANGED <<AppSide, offClient>>

\* top of 'outer: `while let Ok(msg) = write.try_recv()`, one message
drain_one_bad(w, ac) ==
    CASE w.kind = "Join" -> ac \cup {w.chan}
      [] OTHER -> ac

drain_one(w, ac) ==
    CASE w.kind = "Join" -> ac \cup {w.chan}
      [] w.kind = "Part" -> ac \ {w.chan}
      [] OTHER -> ac

DrainOne ==
    /\ pc = "Drain"
    /\ writeQ # <<>>
    /\ active_channels' = drain_one(write_recv(writeQ).msg, active_channels)
    /\ writeQ' = write_recv(writeQ).rest
    /\ inserted' = <<>>
    /\ written' = <<>>
    /\ UNCHANGED <<pc, eventQ, our_name, srv, joined, idle, silent, uptime, timer, rej>>
    /\ inbound' = NoFrame
    /\ UNCHANGED <<AppSide, offClient>>

\* the queue is empty: `read.send(Event::Connecting)`, then TcpStream::connect
send_connecting_bad(q) == q

\* read.send(Event::Connecting) at the top of every connection attempt
send_connecting(q) == Append(q, EvConnecting)

DrainDone ==
    /\ pc = "Drain"
    /\ writeQ = <<>>
    /\ IF clientAlive
       THEN /\ Fits(Append(eventQ, EvConnecting))
            /\ eventQ' = send_connecting(eventQ)
            /\ pc' = "Connect"
       ELSE /\ eventQ' = eventQ
            /\ pc' = "Done"
    /\ rej' = Emitted(eventQ')
    /\ inserted' = <<>>
    /\ written' = <<>>
    /\ UNCHANGED <<active_channels, writeQ, our_name, srv, joined, idle, silent, uptime, timer>>
    /\ inbound' = NoFrame
    /\ UNCHANGED <<AppSide, offClient>>

\* TcpStream::connect succeeds
ConnectOk ==
    /\ pc = "Connect"
    /\ pc' = "Register"
    /\ inserted' = <<>>
    /\ written' = <<>>
    /\ UNCHANGED <<active_channels, writeQ, eventQ, our_name, srv, joined, idle, silent, uptime,
                   timer, rej>>
    /\ inbound' = NoFrame
    /\ UNCHANGED <<AppSide, offClient>>

\* TcpStream::connect fails
ConnectFail ==
    /\ pc = "Connect"
    /\ Go(reconnect(clientAlive, eventQ))
    /\ inserted' = <<>>
    /\ written' = <<>>
    /\ UNCHANGED <<active_channels, writeQ>>
    /\ inbound' = NoFrame
    /\ UNCHANGED <<AppSide, offClient>>

\* the registration is written; the connected loop starts with a new
\* PingTracker and `our_name = None`
RegisterOk ==
    /\ pc = "Register"
    /\ pc' = "Loop"
    /\ inserted' = <<>>
    /\ written' = <<Line("REGISTER", 0)>>
    /\ our_name' = FALSE
    /\ srv' = "fresh"
    /\ joined' = {}
    /\ idle' = 0
    /\ silent' = 0
    /\ uptime' = 0
    /\ UNCHANGED <<active_channels, writeQ, eventQ, timer, rej>>
    /\ inbound' = NoFrame
    /\ UNCHANGED <<AppSide, offClient>>

\* writing the registration fails
RegisterFail ==
    /\ pc = "Register"
    /\ Go(reconnect(clientAlive, eventQ))
    /\ inserted' = <<>>
    /\ written' = <<>>
    /\ UNCHANGED <<active_channels, writeQ>>
    /\ inbound' = NoFrame
    /\ UNCHANGED <<AppSide, offClient>>

\* the line run encodes for a command
LineOf(w) ==
    Line(CASE w.kind = "Join" -> "JOIN"
           [] w.kind = "Part" -> "PART"
           [] OTHER -> "PRIVMSG", w.chan)

\* connected loop, Either::Left(Some(write)): one command is taken and written
LoopWrite(ok) ==
    /\ pc = "Loop"
    /\ writeQ # <<>>
    /\ LET w == write_recv(writeQ).msg
       IN /\ writeQ' = write_recv(writeQ).rest
          /\ active_channels' = drain_one(w, active_channels)
          /\ IF ok
             THEN /\ inserted' = <<>>
                  /\ written' = <<LineOf(w)>>
                  /\ joined' = CASE w.kind = "Join" -> joined \cup {w.chan}
                                 [] w.kind = "Part" -> joined \ {w.chan}
                                 [] OTHER -> joined
                  /\ idle' = 0
                  /\ UNCHANGED <<pc, eventQ, our_name, srv, silent, uptime, timer, rej>>
             ELSE /\ inserted' = <<>>
                  /\ written' = <<>>
                  /\ Go(reconnect(clientAlive, eventQ))
    /\ inbound' = NoFrame
    /\ UNCHANGED <<AppSide, offClient>>

\* connected loop, Either::Left(None): every Writer is gone and the queue is empty
write_closed_bad(alive, q) == FALSE

\* write.recv() yields None: every sender is gone and nothing is queued
write_closed(alive, q) == ~alive /\ q = <<>>

LoopWriteClosed ==
    /\ pc = "Loop"
    /\ write_closed(clientAlive, writeQ)
    /\ pc' = "Done"
    /\ inserted' = <<>>
    /\ written' = <<>>
    /\ NoConn
    /\ UNCHANGED <<active_channels, writeQ, eventQ, timer, rej>>
    /\ inbound' = NoFrame
    /\ UNCHANGED <<AppSide, offClient>>

\* connected loop, Either::Right(Ok(Some(line))) for a line that parses and is
\* not GLOBALUSERSTATE: tracker update, pong, frame dispatch
LoopRead(f, ok) ==
    /\ pc = "Loop"
    /\ f \in ServerFrames
    /\ f.kind \notin {"Garbage", "GlobalUserState"}
    /\ IF should_pong(f) /\ ~ok
       THEN /\ inserted' = <<>>
            /\ written' = <<>>
            /\ inbound' = NoFrame
            /\ Go(reconnect(clientAlive, eventQ))
       ELSE /\ inserted' = <<>>
            /\ written' = IF should_pong(f) THEN <<Line("PONG", 0)>> ELSE <<>>
            /\ IF HasEvent(f, our_name) /\ ~clientAlive
               THEN /\ pc' = "Done"
                    /\ inbound' = NoFrame
                    /\ NoConn
                    /\ UNCHANGED <<eventQ, timer, rej>>
               ELSE /\ eventQ' = IF HasEvent(f, our_name)
                                 THEN Append(eventQ, EventOf(f)) ELSE eventQ
                    /\ inbound' = IF HasEvent(f, our_name) THEN f ELSE NoFrame
                    /\ Fits(eventQ')
                    /\ our_name' = (our_name \/ f.kind = "Ready")
                    /\ srv' = ServerAfter(f)
                    /\ silent' = pt_update(f)
                    /\ UNCHANGED uptime
                    /\ idle' = 0
                    /\ rej' = IF f.kind = "Notice"
                              THEN [Emitted(eventQ') EXCEPT !.rejected = TRUE, !.since = {}]
                              ELSE Emitted(eventQ')
                    /\ UNCHANGED <<pc, joined, timer>>
    /\ UNCHANGED <<active_channels, writeQ>>
    /\ UNCHANGED <<AppSide, offClient>>

\* frame dispatch, TwitchMessage::GlobalUserState: Connected is sent, then a
\* JOIN is written for every active channel; done lists the channels written
\* before a write failed (all of them when none failed)
replay_bad(ac) == {}

replay(ac) == ac

LoopReadGlobalUserState(done, order) ==
    /\ pc = "Loop"
    /\ Frame("GlobalUserState", 0, FALSE) \in ServerFrames
    /\ done \subseteq replay(active_channels)
    /\ order \in Orders(done)
    /\ inbound' = IF our_name /\ clientAlive
                  THEN Frame("GlobalUserState", 0, FALSE) ELSE NoFrame
    /\ IF ~our_name
       THEN /\ pc' = "Panicked"
            /\ inserted' = <<>>
            /\ written' = <<>>
            /\ NoConn
            /\ UNCHANGED <<eventQ, timer, rej>>
       ELSE IF ~clientAlive
       THEN /\ pc' = "Done"
            /\ inserted' = <<>>
            /\ written' = <<>>
            /\ NoConn
            /\ UNCHANGED <<eventQ, timer, rej>>
       ELSE IF done = replay(active_channels)
       THEN /\ eventQ' = Append(eventQ, EvConnected)
            /\ Fits(eventQ')
            /\ inserted' = <<>>
            /\ written' = JoinLines(order)
            /\ joined' = joined \cup done
            /\ srv' = "registered"
            /\ silent' = pt_update(Frame("GlobalUserState", 0, FALSE))
            /\ UNCHANGED uptime
            /\ idle' = 0
            /\ rej' = Emitted(eventQ')
            /\ UNCHANGED <<pc, our_name, timer>>
       ELSE /\ inserted' = <<>>
            /\ written' = JoinLines(order)
            /\ Go(reconnect(clientAlive, Append(eventQ, EvConnected)))
    /\ UNCHANGED <<active_channels, writeQ>>
    /\ UNCHANGED <<AppSide, offClient>>

\* a line that twitch_message::parse rejects
LoopReadGarbage ==
    /\ pc = "Loop"
    /\ Frame("Garbage", 0, FALSE) \in ServerFrames
    /\ Go(reconnect(clientAlive, eventQ))
    /\ inserted' = <<>>
    /\ written' = <<>>
    /\ UNCHANGED <<active_channels, writeQ>>
    /\ inbound' = NoFrame
    /\ UNCHANGED <<AppSide, offClient>>

\* Either::Right(..): read error or end of stream
LoopReadEnd ==
    /\ pc = "Loop"
    /\ Go(reconnect(clientAlive, eventQ))
    /\ inserted' = <<>>
    /\ written' = <<>>
    /\ UNCHANGED <<active_channels, writeQ>>
    /\ inbound' = NoFrame
    /\ UNCHANGED <<AppSide, offClient>>

\* the select ran for ping_timeout without a command or a line
LoopTimeout(ok) ==
    /\ pc = "Loop"
    /\ idle >= ping_timeout
    /\ IF probably_timed_out(silent) \/ ~ok
       THEN /\ inserted' = <<>>
            /\ written' = <<>>
            /\ Go(reconnect(clientAlive, eventQ))
       ELSE /\ inserted' = <<>>
            /\ written' = <<Ping(as_secs(uptime))>>
            /\ idle' = 0
            /\ UNCHANGED <<pc, eventQ, our_name, srv, joined, silent, uptime, timer, rej>>
    /\ UNCHANGED <<active_channels, writeQ>>
    /\ inbound' = NoFrame
    /\ UNCHANGED <<AppSide, offClient>>

\* time passes while the select waits
Tick ==
    /\ pc = "Loop"
    /\ idle < ping_timeout
    /\ silent + Quantum <= MaxSilent
    /\ uptime + Quantum * 1000 <= MaxUptime
    /\ idle' = idle + Quantum
    /\ silent' = silent + Quantum
    /\ uptime' = uptime + Quantum * 1000
    /\ inserted' = <<>>
    /\ written' = <<>>
    /\ UNCHANGED <<pc, active_channels, writeQ, eventQ, our_name, srv, joined, timer, rej>>
    /\ inbound' = NoFrame
    /\ UNCHANGED <<AppSide, offClient>>

\* tokio::time::sleep(RECONNECT) is over: continue 'outer
Wake ==
    /\ pc = "Sleep"
    /\ pc' = "Drain"
    /\ timer' = 0
    /\ inserted' = <<>>
    /\ written' = <<>>
    /\ UNCHANGED <<active_channels, writeQ, eventQ, our_name, srv, joined, idle, silent, uptime, rej>>
    /\ inbound' = NoFrame
    /\ UNCHANGED <<AppSide, offClient>>

NextClient ==
    \/ Connect
    \/ DropClient
    \/ \E c \in Chans : WriterJoin(c)
    \/ \E c \in Chans : WriterPart(c)
    \/ \E c \in Chans : WriterPrivmsg(c)
    \/ ClientPoll
    \/ StartSignal
    \/ SignalIgnore
    \/ DrainOne
    \/ DrainDone
    \/ ConnectOk
    \/ ConnectFail
    \/ RegisterOk
    \/ RegisterFail
    \/ \E ok \in BOOLEAN : LoopWrite(ok)
    \/ LoopWriteClosed
    \/ \E f \in Frames, ok \in BOOLEAN : LoopRead(f, ok)
    \/ \E done \in SUBSET Chans : \E order \in Orders(done) : LoopReadGlobalUserState(done, order)
    \/ LoopReadGarbage
    \/ LoopReadEnd
    \/ \E ok \in BOOLEAN : LoopTimeout(ok)
    \/ Tick
    \/ Wake

\* the connection task on its own: the cache is never used
InitTask ==
    /\ InitClient
    /\ InitResolver
    /\ InitHelix
    /\ InitStream

SpecClient == InitTask /\ [][NextClient]_vars

\* The connection task under the scheduling the runtime gives it: a task that
\* can run is run, a sleep ends, a connection attempt and a write of the
\* registration come back, and select! (which picks among its ready branches
\* at random) does not pass over a ready write.recv() for ever.
TaskFairness ==
    /\ WF_vars(StartSignal)
    /\ WF_vars(SignalIgnore)
    /\ WF_vars(Wake)
    /\ WF_vars(DrainOne)
    /\ WF_vars(DrainDone)
    /\ WF_vars(ConnectOk \/ ConnectFail)
    /\ WF_vars(RegisterOk \/ RegisterFail)
    /\ WF_vars(\E ok \in BOOLEAN : LoopWrite(ok))
    /\ WF_vars(LoopWriteClosed)

SpecClientLive == InitTask /\ [][NextClient]_vars /\ TaskFairness

(***************************************************************************)
(* The chat session: the user joins channels and sends messages while the  *)
(* connection task runs; no keepalive interval elapses.                    *)
(***************************************************************************)
ChatFrames == Frames \cup {UserStateId(c, i) : c \in Chans, i \in MsgIds}

NextChat ==
    \/ Connect
    \/ \E c \in Chans : WriterJoin(c)
    \/ \E c \in Chans : Send(c)
    \/ ClientPoll
    \/ StartSignal
    \/ DrainOne
    \/ DrainDone
    \/ ConnectOk
    \/ RegisterOk
    \/ \E ok \in BOOLEAN : LoopWrite(ok)
    \/ \E f \in ChatFrames, ok \in BOOLEAN : LoopRead(f, ok)
    \/ \E done \in SUBSET Chans : \E order \in Orders(done) : LoopReadGlobalUserState(done, order)
    \/ LoopReadEnd
    \/ Wake

InitChat ==
    /\ InitClient
    /\ InitResolver
    /\ InitHelix
    /\ InitStream
    /\ credsValid = TRUE

SpecChat == InitChat /\ [][NextChat]_vars

(***************************************************************************)
(* The application: ReadyApp::update, one frame.  The caches polled by a   *)
(* frame and the rendered message lists are left out.                      *)
(***************************************************************************)
AppChans == 1..NumAppChans

\* ReadyApp::handle_message on a = the application's state.  Channel names
\* are compared with their leading '#' stripped
handle_message_bad(a, m) ==
    CASE m.kind \in {"Finished", "Privmsg"} ->
            [a EXCEPT !.inserted = Append(@, m),
                      !.stored = IF m.kind = "Finished" THEN [@ EXCEPT ![m.n] = @ + 1] ELSE @,
                      !.fatal = m.chan \notin a.channels]
      [] OTHER -> a

handle_message(a, m) ==
    CASE m.kind = "Join" -> [a EXCEPT !.channels = @ \cup {m.chan}]
      [] m.kind \in {"Finished", "Privmsg"} ->
            [a EXCEPT !.inserted = Append(@, m),
                      !.stored = IF m.kind = "Finished" THEN [@ EXCEPT ![m.n] = @ + 1] ELSE @,
                      !.fatal = m.chan \notin a.channels]
      [] OTHER -> a

\* ReadyApp::update: `while let Some(event) = self.twitch.poll(..)`; the loop
\* ends when poll returns None, which it does on an empty queue and after
\* every event that is not returned as a message
RECURSIVE poll_loop(_)
poll_loop(a) ==
    IF a.q = <<>> THEN a
    ELSE LET r == client_poll(a.q, a.status, a.identity, a.last)
             e == events_poll(a.q).ev
             b == [a EXCEPT !.q = r.rest,
                            !.status = r.status,
                            !.identity = r.identity,
                            !.last = r.last,
                            !.fin = Returned(@, r.msg),
                            !.acks = IF e.kind = "Join" THEN @ \cup {e.chan} ELSE @,
                            !.disorder = @ \/ /\ r.msg.kind \in {"Finished", "Privmsg"}
                                              /\ r.msg.chan \notin a.acks \cup loaded]
         IN IF r.msg.kind = "None" THEN b
            ELSE LET c == handle_message(b, r.msg)
                 IN IF c.fatal THEN c ELSE poll_loop(c)

\* StartView::display
start_view(st) ==
    CASE st \in {"NotConnected", "Connecting"} -> [screen |-> "Disconnected", shown |-> "start"]
      [] st = "Reconnecting" -> [screen |-> "Disconnected", shown |-> "reconnecting"]
      [] st = "Connected" -> [screen |-> "Connected", shown |-> "blank"]

\* ReadyApp::update, `match &mut self.screen`
display(scr, st, chs) ==
    CASE scr = "InvalidCredentials" -> [screen |-> scr, shown |-> "error"]
      [] scr = "Disconnected" -> start_view(st)
      [] scr = "Connected" -> [screen |-> scr, shown |-> IF chs = {} THEN "initial" ELSE "main"]

\* the application has not panicked
AppAlive == clientAlive /\ ~fatal /\ status # "Panicked"

\* ReadyApp::update; helix_error holds no event
Update ==
    /\ AppAlive
    /\ LET a == poll_loop([q |-> eventQ, status |-> status, identity |-> identity,
                           last |-> app_last, fin |-> fin, channels |-> channels,
                           stored |-> stored, inserted |-> <<>>, acks |-> acks,
                           disorder |-> disorder, fatal |-> FALSE])
           d == display(screen, a.status, a.channels)
       IN /\ eventQ' = a.q
          /\ status' = a.status
          /\ identity' = a.identity
          /\ app_last' = a.last
          /\ fin' = a.fin
          /\ channels' = a.channels
          /\ stored' = a.stored
          /\ inserted' = a.inserted
          /\ acks' = a.acks
          /\ disorder' = a.disorder
          /\ fatal' = a.fatal
          /\ IF a.fatal \/ a.status = "Panicked"
             THEN UNCHANGED <<screen, shown>>
             ELSE screen' = d.screen /\ shown' = d.shown
    /\ inbound' = NoFrame
    /\ written' = <<>>
    /\ UNCHANGED <<pc, signal, clientAlive, credsValid, active_channels, writeQ, our_name,
                   srv, joined, idle, silent, uptime, timer, rej, nsent, transcript>>
    /\ UNCHANGED <<resolverVars, streamVars, helixVars, loaded>>

\* StartView::display_start: the image is clicked
ClickConnect == AppAlive /\ shown = "start" /\ Connect

\* the user enters a command once the connection task has taken the last one
Idle == AppAlive /\ writeQ = <<>>

\* InitialView / MainView, Input::Join
InputJoin(c) == Idle /\ shown \in {"initial", "main"} /\ WriterJoin(c)

\* MainView, Input::Send on the active channel
InputSend(c) == Idle /\ shown = "main" /\ c \in channels /\ Send(c)

AppFrames ==
    {Frame("Ready", 0, FALSE)}
    \cup {Frame("Privmsg", c, FALSE) : c \in AppChans}
    \cup {UserStateId(c, c) : c \in AppChans}
    \cup {Frame("Join", c, TRUE) : c \in AppChans}

NextApp ==
    \/ ClickConnect
    \/ \E c \in AppChans : InputJoin(c)
    \/ \E c \in AppChans : InputSend(c)
    \/ Update
    \/ StartSignal
    \/ DrainOne
    \/ DrainDone
    \/ ConnectOk
    \/ RegisterOk
    \/ LoopWrite(TRUE)
    \/ \E f \in AppFrames : LoopRead(f, TRUE)
    \/ \E done \in SUBSET AppChans : \E order \in Orders(done) : LoopReadGlobalUserState(done, order)
    \/ LoopReadEnd
    \/ Wake

\* ReadyApp::create: the loaded channels are in the list and a Join for each
\* is handed to the Writer; the saved state holds no channel or one channel
InitApp ==
    /\ \E l \in {{}, {1}} : \E order \in Orders(l) :
          /\ InitTwitch([i \in 1..Len(order) |-> WJoin(order[i])])
          /\ InitReady(l)
    /\ InitResolver
    /\ InitHelix
    /\ InitStream
    /\ credsValid = TRUE

SpecApp == InitApp /\ [][NextApp]_vars

(***************************************************************************)
(* StreamCheck: the application side and the background loop               *)
(***************************************************************************)
AllAnswers == Answers(Keys)

AllUpdates == UNION {BatchUpdates(R, a) : R \in SUBSET Keys, a \in AllAnswers}

\* StreamCheck::get_or_subscribe: the closure handed to get_or_else sends
\* Action::Added on `watching`; it runs only when get_or_else calls it
subscribe_bad(w, called, k) == Append(w, Added(k))

subscribe(w, called, k) == IF called THEN Append(w, Added(k)) ELSE w

\* what get_or_subscribe returns: `get_or_else(..)?.as_ref()`, the stream of
\* a Ready entry that holds one
cached(ret) == IF ret.some /\ ret.val # NoStream THEN ret ELSE None

GetOrSubscribe(k) ==
    LET r == get_or_else(map, k)
    IN /\ Len(subscribe(watching, r.called, k)) <= MaxActQ
       /\ map' = r.map
       /\ watching' = subscribe(watching, r.called, k)
       /\ UNCHANGED <<pending, nextId, delivered, epochFetch, emptied, last>>
       /\ UNCHANGED <<update, events, set, queue, burst, nap, req, batch, quiet, answered>>
       /\ UNCHANGED offStream

\* StreamCheck::unsubscribe
Unsubscribe(k) ==
    /\ Len(watching) < MaxActQ
    /\ watching' = Append(watching, Removed(k))
    /\ UNCHANGED <<update, events, set, queue, burst, nap, req, batch, quiet, answered>>
    /\ UNCHANGED <<resolverVars, offStream>>

\* StreamCheck::poll: the update channel is drained into the cache and the
\* event channel (the ResolverMap's own outstanding set is always empty here)
StreamPoll ==
    /\ events = <<>>
    /\ LET r == UpdateAll(update, map, events)
       IN /\ map' = r.map
          /\ events' = r.events
    /\ update' = <<>>
    /\ UNCHANGED <<pending, nextId, delivered, epochFetch, emptied, last>>
    /\ UNCHANGED <<watching, set, queue, burst, nap, req, batch, quiet, answered>>
    /\ UNCHANGED offStream

\* StreamCheck::poll_event
PollEvent ==
    /\ events # <<>>
    /\ events' = Tail(events)
    /\ UNCHANGED <<watching, update, set, queue, burst, nap, req, batch, quiet, answered>>
    /\ UNCHANGED <<resolverVars, offStream>>

\* poll_helix, Either::Right(Ok(Some(action))): an action is received and the
\* loop starts over with a new sleep and a new timeout
recv_action_bad(a, s, q) ==
    [set |-> IF a.act = "Added" THEN s \cup {a.key} ELSE s \ {a.key},
     queue |-> IF a.act = "Added" THEN Append(q, a.key) ELSE q]

recv_action(a, s, q) ==
    [set |-> IF a.act = "Added" THEN s \cup {a.key} ELSE s \ {a.key},
     queue |-> IF a.act = "Added" /\ a.key \notin s THEN Append(q, a.key) ELSE q]

Recv ==
    /\ watching # <<>>
    /\ LET a == Head(watching)
           new == a.act = "Added" /\ a.key \notin set
       IN /\ watching' = Tail(watching)
          /\ set' = recv_action(a, set, queue).set
          /\ queue' = recv_action(a, set, queue).queue
          /\ batch' = CASE new /\ queue = <<>> -> NoBatch
                         [] new /\ Len(queue) = 1 -> [batch EXCEPT !.gap = batch.age]
                         [] queue # <<>> -> [batch EXCEPT !.clean = FALSE]
                         [] OTHER -> batch
    /\ burst' = 0
    /\ nap' = 0
    /\ quiet' = 0
    /\ UNCHANGED <<update, events, req, answered>>
    /\ UNCHANGED <<resolverVars, offStream>>

\* batch_send!(R) answered by a with the updates us; `continue` when the
\* fetch yields None
batch_send(R, full, a, us) ==
    /\ a \in Answers(R)
    /\ req' = [keys |-> R, full |-> full, ans |-> a, seq |-> 1 - req.seq]
    /\ IF a.kind = "closed"
       THEN /\ us = <<>>
            /\ UNCHANGED <<update, answered>>
       ELSE /\ us \in BatchUpdates(R, a)
            /\ Len(update) + Len(us) <= MaxUpdQ
            /\ update' = update \o us
            /\ answered' = IF a.kind = "ok" THEN answered \cup R ELSE answered

\* poll_helix: the select ends because a timer fired.  Either::Left when the
\* sleep is over: the whole watch-set is fetched.  Either::Right(Err) when
\* the burst window is over: the pending batch, if any, is fetched and
\* cleared.  Then the loop starts over with a new sleep and a new timeout.
Expire(left, a, us) ==
    /\ IF left
       THEN /\ nap >= STREAM_CHECK_DURATION
            /\ batch_send(set, TRUE, a, us)
            /\ quiet' = 0
            /\ UNCHANGED <<queue, batch>>
       ELSE /\ burst >= BURST_WINDOW
            /\ IF queue # <<>>
               THEN /\ batch_send(Range(queue), FALSE, a, us)
                    /\ queue' = IF a.kind = "closed" THEN queue ELSE <<>>
                    /\ batch' = IF a.kind = "closed" THEN batch ELSE NoBatch
                    /\ quiet' = 0
               ELSE /\ a = NoReq.ans
                    /\ us = <<>>
                    /\ UNCHANGED <<update, req, answered, queue, batch, quiet>>
    /\ burst' = 0
    /\ nap' = 0
    /\ UNCHANGED <<watching, events, set>>
    /\ UNCHANGED <<resolverVars, offStream>>

\* time passes while the select waits: no action is queued, no timer is over
StreamTick ==
    /\ watching = <<>>
    /\ burst < BURST_WINDOW
    /\ nap < STREAM_CHECK_DURATION
    /\ quiet + Step <= MaxQuiet
    /\ batch.age + Step <= MaxAge
    /\ burst' = burst + Step
    /\ nap' = nap + Step
    /\ quiet' = IF set # {} THEN quiet + Step ELSE 0
    /\ batch' = IF queue # <<>> THEN [batch EXCEPT !.age = @ + Step] ELSE batch
    /\ UNCHANGED <<watching, update, events, set, queue, req, answered>>
    /\ UNCHANGED <<resolverVars, offStream>>

NextStream ==
    \/ \E k \in Keys : GetOrSubscribe(k)
    \/ \E k \in Keys : Unsubscribe(k)
    \/ StreamPoll
    \/ PollEvent
    \/ Recv
    \/ \E left \in BOOLEAN, a \in AllAnswers, us \in AllUpdates : Expire(left, a, us)
    \/ StreamTick

InitBatcher ==
    /\ InitStream
    /\ InitResolver
    /\ InitHelix
    /\ InitClient
    /\ credsValid = TRUE

SpecStream == InitBatcher /\ [][NextStream]_vars

(***************************************************************************)
(* helix::Client::get_many_inner                                           *)
(***************************************************************************)
\* the future starts: one sub-request per chunk is spawned on the JoinSet
GetMany(n) ==
    /\ mpc = "idle"
    /\ query' = n
    /\ subs' = [i \in DOMAIN chunks(1, n, CHUNK) |-> Sub(chunks(1, n, CHUNK)[i])]
    /\ out' = <<>>
    /\ mpc' = "joining"
    /\ UNCHANGED <<authVars, offHelix>>

\* a spawned sub-request ends: this.get_response(ep, chunk).await.ok().unwrap_or_default()
SubEnds(i, y) ==
    /\ mpc = "joining"
    /\ i \in DOMAIN subs
    /\ subs[i].st = "running"
    /\ subs' = [subs EXCEPT ![i] = [@ EXCEPT !.st = "ended", !.yield = y]]
    /\ UNCHANGED <<query, out, mpc, authVars, offHelix>>

\* `while let Some(item) = set.join_next().await`: a sub-request that has
\* ended is joined and its items are appended to `out`
JoinNext(i) ==
    /\ mpc = "joining"
    /\ i \in DOMAIN subs
    /\ subs[i].st = "ended"
    /\ subs' = [subs EXCEPT ![i] = [@ EXCEPT !.st = "joined"]]
    /\ out' = Append(out, i)
    /\ UNCHANGED <<query, mpc, authVars, offHelix>>

\* join_next yields None: the JoinSet is empty and `out` is the result
ManyDone ==
    /\ mpc = "joining"
    /\ \A i \in DOMAIN subs : subs[i].st = "joined"
    /\ mpc' = "done"
    /\ UNCHANGED <<query, subs, out, authVars, offHelix>>

\* the result was taken; the next batched lookup can start
ManyTaken ==
    /\ mpc = "done"
    /\ mpc' = "idle"
    /\ UNCHANGED <<query, subs, out, authVars, offHelix>>

MaxSubs == (MaxQuery + CHUNK - 1) \div CHUNK

NextMany ==
    \/ \E n \in 0..MaxQuery : GetMany(n)
    \/ \E i \in 1..MaxSubs, y \in Yields : SubEnds(i, y)
    \/ \E i \in 1..MaxSubs : JoinNext(i)
    \/ ManyDone
    \/ ManyTaken

InitMany ==
    /\ InitHelix
    /\ InitResolver
    /\ InitClient
    /\ InitStream
    /\ credsValid = TRUE

SpecMany == InitMany /\ [][NextMany]_vars

(***************************************************************************)
(* helix::Client::get_response and fetch_bearer_token                      *)
(***************************************************************************)
\* a request is made: get_response starts its loop
Request(r) ==
    /\ rpc[r] = "idle"
    /\ rpc' = [rpc EXCEPT ![r] = "token"]
    /\ tries' = [tries EXCEPT ![r] = 0]
    /\ UNCHANGED <<bearer_token, issued, held, manyVars, offHelix>>

\* fetch_bearer_token: the cached token, or a new one from get_oauth which
\* is cached; the lock is held throughout
fetch_bearer_token(tok, n) ==
    IF tok # NoToken THEN [token |-> tok, cached |-> tok, issued |-> n]
    ELSE [token |-> n + 1, cached |-> n + 1, issued |-> n + 1]

FetchToken(r) ==
    /\ rpc[r] = "token"
    /\ bearer_token = NoToken => issued < MaxIssued
    /\ LET t == fetch_bearer_token(bearer_token, issued)
       IN /\ held' = [held EXCEPT ![r] = t.token]
          /\ bearer_token' = t.cached
          /\ issued' = t.issued
    /\ rpc' = [rpc EXCEPT ![r] = "send"]
    /\ UNCHANGED <<tries, manyVars, offHelix>>

\* get_oauth fails: `unwrap_or_else(|err| panic!(..))`
OauthFails(r) ==
    /\ rpc[r] = "token"
    /\ bearer_token = NoToken
    /\ rpc' = [rpc EXCEPT ![r] = "panicked"]
    /\ UNCHANGED <<bearer_token, issued, held, tries, manyVars, offHelix>>

\* client.execute(req): the request is sent; 401 leads to the token being
\* discarded, every other outcome leaves the loop
after_response_bad(code) == "done"

after_response(code) == IF code = "unauthorized" THEN "discard" ELSE "done"

Execute(r, code) ==
    /\ rpc[r] = "send"
    /\ tries[r] < MaxTries
    /\ tries' = [tries EXCEPT ![r] = @ + 1]
    /\ rpc' = [rpc EXCEPT ![r] = after_response(code)]
    /\ UNCHANGED <<bearer_token, issued, held, manyVars, offHelix>>

\* `let _ = self.bearer_token.lock().await.take()`, then the loop starts over
Discard(r) ==
    /\ rpc[r] = "discard"
    /\ bearer_token' = NoToken
    /\ rpc' = [rpc EXCEPT ![r] = "token"]
    /\ UNCHANGED <<issued, held, tries, manyVars, offHelix>>

\* the caller has the result; it can make its next request
Respond(r) ==
    /\ rpc[r] = "done"
    /\ rpc' = [rpc EXCEPT ![r] = "idle"]
    /\ UNCHANGED <<bearer_token, issued, held, tries, manyVars, offHelix>>

Statuses == {"ok", "unauthorized", "failed"}

NextAuth ==
    \/ \E r \in Reqs : Request(r)
    \/ \E r \in Reqs : FetchToken(r)
    \/ \E r \in Reqs : OauthFails(r)
    \/ \E r \in Reqs, code \in Statuses : Execute(r, code)
    \/ \E r \in Reqs : Discard(r)
    \/ \E r \in Reqs : Respond(r)

InitAuth ==
    /\ InitHelix
    /\ InitResolver
    /\ InitClient
    /\ InitStream
    /\ credsValid = TRUE

SpecAuth == InitAuth /\ [][NextAuth]_vars

(***************************************************************************)
(* Claims on the resolution cache                                          *)
(***************************************************************************)
Called(op) == last'.seq # last.seq /\ last'.op = op

CalledOn(op, k) == Called(op) /\ last'.key = k

Outstanding(k) == {i \in DOMAIN pending : pending[i].key = k /\ pending[i].chan = "Empty"}

Finished(pend) == {i \in DOMAIN pend : pend[i].chan = "Sent"}

IsNotSent(h) == h.chan # "Sent"

\* C1: while a key stays NotReady (no removal in between) make_fetch has run
\* at most once for it; get_or_update on an unknown key runs make_fetch once
\* and pushes its handle, and get_or_update on a NotReady key returns nothing,
\* runs no make_fetch and leaves the outstanding set and the map as they were.
C1_FetchOnceWhileNotReady ==
    [][/\ \A k \in Keys : map'[k] = NotReady => epochFetch'[k] <= 1
       /\ \A k \in Keys : CalledOn("get_or_update", k) =>
            /\ ~contains(map, k) =>
                 /\ last'.spawned
                 /\ epochFetch'[k] = 1
                 /\ pending' = Append(pending, NewFut(nextId', k))
            /\ map[k] = NotReady =>
                 /\ ~last'.spawned
                 /\ ~last'.ret.some
                 /\ pending' = pending
                 /\ map' = map]_vars

C1_Witness ==
    /\ last.op = "get_or_update"
    /\ ~last.spawned
    /\ map[last.key] = NotReady
    /\ epochFetch[last.key] = 1
    /\ Outstanding(last.key) # {}

\* C2: at most one outstanding handle was spawned for any given key.
C2_AtMostOneOutstandingPerKey ==
    \A k \in Keys : Cardinality(Outstanding(k)) <= 1

\* C3: poll hands each finished handle to resolve exactly once and removes
\* exactly the finished handles, keeping the others in order; no handle is
\* ever resolved twice; with nothing finished poll changes neither the map
\* nor the outstanding set.
C3_PollDeliversOnce ==
    [][/\ \A id \in 1..MaxHandles : delivered'[id] <= 1
       /\ Called("poll") =>
            /\ pending' = SelectSeq(pending, IsNotSent)
            /\ \A id \in 1..MaxHandles :
                 delivered'[id] = delivered[id] +
                    (IF \E i \in Finished(pending) : pending[i].id = id THEN 1 ELSE 0)
            /\ Finished(pending) = {} => map' = map /\ pending' = pending]_vars

C3_Witness ==
    /\ last.op = "poll"
    /\ \E id \in 1..MaxHandles : delivered[id] = 1
    /\ \E i \in DOMAIN pending : pending[i].chan = "Empty"

\* C4: a Ready key never becomes NotReady; get_or_update, get_or_else, poll
\* and set keep it Ready, and every other step keeps it Ready or removes it.
C4_ReadyNeverNotReady ==
    [][\A k \in Keys : is_ready(map[k]) =>
         /\ map'[k].st # "NotReady"
         /\ (Called("get_or_update") \/ Called("get_or_else") \/ Called("poll")
               \/ Called("set") \/ Called("add")) => is_ready(map'[k])]_vars

C4_Witness ==
    /\ last.op = "get_or_else"
    /\ last.ret.some
    /\ is_ready(map[last.key])

\* C5: after the fetch for a key was polled with an empty result, the cache
\* starts no fetch on its own, and the next get for that key starts a new one.
C5_RetryAfterEmptyResult ==
    [][/\ Called("poll") => nextId' = nextId /\ Len(pending') <= Len(pending)
       /\ \A k \in Keys :
            (CalledOn("get_or_update", k) /\ emptied[k] /\ map[k] = NotReady)
               => last'.spawned]_vars

(***************************************************************************)
(* Claims on the protocol connection task                                  *)
(***************************************************************************)
Count(q, kind) == Cardinality({i \in DOMAIN q : q[i].kind = kind})

InConn(p) == p \in {"Connect", "Register", "Loop"}

\* a connection attempt or an established connection ends in this step
ConnEnded == InConn(pc) /\ ~InConn(pc')

\* C6: while the Client exists, every step that ends a connection attempt or
\* a connection (connect failure, failed write, read error, end of stream,
\* unparsable line, keepalive timeout) sends exactly one Reconnecting event
\* carrying 5 seconds as its last event and starts a 5 second sleep; no other
\* step sends Reconnecting; the sleep ends only at the top of the loop, which
\* is left only by sending Connecting and connecting again; the task stops
\* only when the Client is gone.
C6_FailureReconnects ==
    [][/\ (ConnEnded /\ clientAlive) =>
            /\ pc' = "Sleep"
            /\ timer' = 5
            /\ Count(eventQ', "Reconnecting") = Count(eventQ, "Reconnecting") + 1
            /\ eventQ'[Len(eventQ')] = EvReconnecting(5)
       /\ Count(eventQ', "Reconnecting") > Count(eventQ, "Reconnecting") => ConnEnded
       /\ (pc = "Sleep" /\ pc' # "Sleep") => pc' = "Drain"
       /\ (pc = "Sleep" /\ clientAlive') => Len(eventQ') <= Len(eventQ)
       /\ (pc = "Drain" /\ pc' # "Drain" /\ clientAlive) =>
            /\ pc' = "Connect"
            /\ eventQ' = Append(eventQ, EvConnecting)
       /\ (pc' \in {"Done", "Panicked"} /\ pc # pc') => ~clientAlive]_vars

C6_Witness ==
    /\ pc = "Connect"
    /\ Len(eventQ) = 2
    /\ eventQ[1] = EvReconnecting(RECONNECT)
    /\ eventQ[2] = EvConnecting

\* C7: an established connection never stays up once no inbound line has
\* arrived for 2 x the keepalive interval, whatever commands were dequeued.
C7_SilenceReconnects ==
    (pc = "Loop" /\ srv = "registered") => silent <= 2 * ping_timeout

\* C8: ending a connection does not change the Active Channel Set, nor does
\* sleeping or connecting; the step that receives GlobalUserState sends
\* Connected and, unless a write fails, writes exactly one JOIN per member of
\* the Active Channel Set; so on a registered connection every active channel
\* has had its JOIN written, and a chat message event is only sent for a
\* channel whose JOIN was written on this connection.
C8_RejoinOnReconnect ==
    [][/\ (ConnEnded /\ writeQ' = writeQ) => active_channels' = active_channels
       /\ pc \in {"Sleep", "Connect", "Register"} => active_channels' = active_channels
       /\ (pc = "Loop" /\ srv = "welcomed" /\ srv' = "registered") =>
            /\ eventQ' = Append(eventQ, EvConnected)
            /\ Len(written') = Cardinality(active_channels)
            /\ {written'[i] : i \in DOMAIN written'} = {Line("JOIN", c) : c \in active_channels}
       /\ (pc' = "Loop" /\ srv' = "registered") => active_channels' \subseteq joined'
       /\ \A c \in Chans :
            (clientAlive' /\ Count(eventQ', "Privmsg") > Count(eventQ, "Privmsg")
                   /\ eventQ'[Len(eventQ')].chan = c)
               => (srv = "registered" /\ c \in joined)]_vars

C8_Witness ==
    /\ pc = "Loop"
    /\ srv = "registered"
    /\ status = "Reconnecting"
    /\ eventQ = <<EvConnecting, EvConnected>>
    /\ active_channels # {}
    /\ written # <<>> /\ Len(written) = Cardinality(active_channels)

\* C9: a command taken from the queue while no connection exists is a Join
\* or a Part, which the task applies to the Active Channel Set; a Send is
\* never taken off the queue there (it stays queued until it can be written).
C9_NoCommandDiscarded ==
    [][(pc = "Drain" /\ Len(writeQ') < Len(writeQ)) =>
          Head(writeQ).kind \in {"Join", "Part"}]_vars

\* C10: after the server rejected the credentials the task sends neither
\* Reconnecting nor Connecting, and by the time it has left that connection
\* it has sent InvalidCredentials.
C10_RejectionIsTerminal ==
    rej.rejected =>
        /\ "Reconnecting" \notin rej.since
        /\ "Connecting" \notin rej.since
        /\ pc # "Loop" => "InvalidCredentials" \in rej.since

IsPrefix(q, q2) == Len(q) <= Len(q2) /\ SubSeq(q2, 1, Len(q)) = q

\* this step took one event off the event queue
Polled == eventQ # <<>> /\ Len(eventQ') < Len(eventQ)

Commands == {WJoin(c) : c \in Chans} \cup {WPart(c) : c \in Chans} \cup {WPrivmsg(c) : c \in Chans}

\* C11: while the receiver exists the event queue only grows at its tail and
\* shrinks at its head: a task step appends the event of the line it handled
\* (Connected for GlobalUserState) or of its transition (Connecting when it
\* starts to connect, Reconnecting as the last event when a connection ends)
\* and nothing else, and Events::poll hands over exactly the oldest event.
C11_EventsInOrder ==
    [][(clientAlive /\ clientAlive') =>
         /\ IsPrefix(eventQ, eventQ') \/ (Polled /\ eventQ' = Tail(eventQ))
         /\ (Polled /\ Head(eventQ).kind \in {"Connecting", "Connected", "Reconnecting"})
               => status' = Head(eventQ).kind
         /\ (inbound' # NoFrame /\ inbound'.kind # "GlobalUserState")
               => eventQ' = Append(eventQ, EventOf(inbound'))
         /\ inbound'.kind = "GlobalUserState"
               => IsPrefix(Append(eventQ, EvConnected), eventQ')
         /\ (pc = "Drain" /\ pc' = "Connect") => eventQ' = Append(eventQ, EvConnecting)
         /\ ConnEnded =>
               /\ eventQ'[Len(eventQ')] = EvReconnecting(RECONNECT)
               /\ Len(eventQ') = Len(eventQ) + (IF inbound' = NoFrame THEN 1 ELSE 2)
         /\ Len(eventQ') > Len(eventQ) =>
               \/ inbound' # NoFrame
               \/ ConnEnded
               \/ pc = "Drain" /\ pc' = "Connect"]_vars

C11_Witness ==
    /\ status = "Connected"
    /\ identity
    /\ eventQ = <<Ev("ChannelId", 1, 0), Ev("Privmsg", 1, 0)>>
    /\ inbound = Frame("Privmsg", 1, FALSE)

\* C12: the command queue only grows at its tail and shrinks at its head; a
\* command line is written only for the oldest queued command, which leaves
\* the queue in that step; the step that takes a command handles no inbound
\* line, and a step that handles an inbound line takes no command.
C12_WritesInQueueOrder ==
    [][/\ \/ writeQ' = writeQ
          \/ \E w \in Commands : writeQ' = Append(writeQ, w)
          \/ writeQ # <<>> /\ writeQ' = Tail(writeQ)
       /\ (inbound' = NoFrame /\ \E i \in DOMAIN written' :
                                    written'[i].cmd \in {"JOIN", "PART", "PRIVMSG"})
             => /\ writeQ # <<>>
                /\ written' = <<LineOf(Head(writeQ))>>
                /\ writeQ' = Tail(writeQ)
       /\ (pc = "Loop" /\ Len(writeQ') < Len(writeQ))
             => /\ inbound' = NoFrame
                /\ eventQ' = eventQ \/ ConnEnded
                /\ written' = <<LineOf(Head(writeQ))>> \/ ConnEnded
       /\ inbound' # NoFrame => writeQ' = writeQ]_vars

C12_Witness ==
    /\ pc = "Loop"
    /\ written = <<Line("PART", 1)>>
    /\ writeQ = <<WPrivmsg(1)>>

(***************************************************************************)
(* Claims on the local echo                                                *)
(***************************************************************************)
\* this step is Input::Send
Sent == nsent' = nsent + 1

\* this step polled a UserState event
PolledUserState == Polled /\ Head(eventQ).kind = "UserState"

\* C13: a send renders the message as local without an id and makes it the
\* pending echo; the poll of the next UserState event (one that carries an
\* id) returns the pending message once as Finished with that id and empties
\* the slot; a UserState polled with an empty slot, and every other step,
\* returns no Finished; no send is ever returned as Finished twice.
C13_EchoFinishedOnce ==
    [][/\ Sent =>
            /\ app_last'.n = nsent'
            /\ transcript' = Append(transcript, Local(nsent', app_last'.chan))
            /\ fin' = fin
       /\ (PolledUserState /\ identity /\ app_last # NoMsg /\ Head(eventQ).id # NoId) =>
            /\ fin' = [fin EXCEPT ![app_last.n] =
                         [id |-> Head(eventQ).id, chan |-> app_last.chan, count |-> 1]]
            /\ app_last' = NoMsg
       /\ (~PolledUserState \/ app_last = NoMsg) => fin' = fin
       /\ \A n \in Sends : fin'[n].count <= 1]_vars

C13_Witness ==
    /\ nsent = 1
    /\ transcript = <<Local(1, 1)>>
    /\ app_last = NoMsg
    /\ fin[1] = [id |-> 2, chan |-> 1, count |-> 1]
    /\ status = "Connected"

\* C14: the slot holds at most the latest send: a send replaces whatever was
\* pending, the slot never goes back to an earlier send, and only the send in
\* the slot can come back as Finished; so a send that was replaced never does.
C14_OnePendingEcho ==
    [][/\ Sent => app_last' = Pending(nsent', app_last'.chan)
       /\ ~Sent => app_last' \in {app_last, NoMsg}
       /\ \A n \in Sends : fin'[n] # fin[n] => (n = app_last.n /\ PolledUserState)
       /\ \A n \in Sends : (n = app_last.n \/ n > nsent) => fin[n] = NoFinished]_vars

C14_Witness ==
    /\ nsent = 2
    /\ app_last = NoMsg
    /\ fin[1] = NoFinished
    /\ fin[2].count = 1
    /\ Len(transcript) = 2

(***************************************************************************)
(* Claims on StreamCheck                                                   *)
(***************************************************************************)
\* this step issued a batched fetch
Fetched == req'.seq # req.seq

\* this step is StreamCheck::poll with updates waiting
StreamPolled == update # <<>> /\ update' = <<>>

\* C15: when the pending batch holds two distinct keys that arrived less than
\* one burst window apart, and nothing else arrived since the first, the
\* fetch of the batch asks for exactly these two keys and is issued one burst
\* window after the first key arrived.
C15_BurstBatchTiming ==
    [][(Fetched /\ Len(queue) = 2 /\ queue[1] # queue[2] /\ batch.clean
           /\ batch.gap < BURST_WINDOW) =>
          /\ req'.keys = Range(queue)
          /\ ~req'.full
          /\ batch.age = BURST_WINDOW]_vars

\* C16: while the watch-set is not empty, never more than 30 seconds pass
\* without an action arriving or a batched fetch being issued.
C16_PeriodicRefresh ==
    set # {} => quiet <= STREAM_CHECK_DURATION

\* C17: a fetch of R answered with the streams S appends one update per key
\* of R and nothing else: (k, stream) for k in S, (k, none) for k in R \ S;
\* StreamCheck::poll turns every waiting update into one event, Added for a
\* stream and Removed for none, in order, and leaves each of these keys Ready
\* with the value of its update.
C17_DiffAgainstRequested ==
    [][/\ (Fetched /\ req'.ans.kind = "ok") =>
            LET R == req'.keys
                S == req'.ans.live
                new == SubSeq(update', Len(update) + 1, Len(update'))
            IN /\ IsPrefix(update, update')
               /\ Len(new) = Cardinality(R)
               /\ \A k \in R : Cardinality({i \in DOMAIN new : new[i].key = k}) = 1
               /\ \A i \in DOMAIN new :
                    /\ new[i].key \in R
                    /\ new[i].stream = IF new[i].key \in S THEN Live ELSE NoStream
       /\ StreamPolled =>
            /\ Len(events') = Len(update)
            /\ \A i \in DOMAIN update :
                 /\ events'[i] = IF update[i].stream = Live
                                 THEN Added(update[i].key) ELSE Removed(update[i].key)
                 /\ is_ready(map'[update[i].key])
                 /\ (\A j \in DOMAIN update : j > i => update[j].key # update[i].key)
                       => map'[update[i].key] = Ready(update[i].stream)]_vars

C17_Witness ==
    /\ req.keys = {1, 2}
    /\ req.ans = [kind |-> "ok", live |-> {1}]
    /\ update = <<>>
    /\ events = <<Added(1), Removed(2)>>
    /\ map[1] = Ready(Live)
    /\ map[2] = Ready(NoStream)

\* C20: a key is Ready in the cache, or named by an Added or Removed event,
\* only if some fetch that asked for it did not fail.
C20_FailureLeavesUnresolved ==
    /\ \A k \in Keys : is_ready(map[k]) => k \in answered
    /\ \A i \in DOMAIN events : events[i].key \in answered

(***************************************************************************)
(* Claims on the helix client                                              *)
(***************************************************************************)
\* what the sub-requests that were joined yielded, taken together
Joined == UNION {Records(subs[i], subs[i].yield) : i \in {j \in DOMAIN subs : subs[j].st = "joined"}}

\* C18: a batched lookup of n keys is split into ceil(n/100) sub-requests of
\* at most 100 keys each which together cover every key exactly once; each
\* sub-request is joined once, in whatever order they end, and the result,
\* handed over only when all of them were joined, is the union of what they
\* yielded
C18_ChunkedAndMerged ==
    mpc # "idle" =>
        /\ Len(subs) = (query + CHUNK - 1) \div CHUNK
        /\ \A i \in DOMAIN subs :
              /\ 1 <= subs[i].lo /\ subs[i].lo <= subs[i].hi /\ subs[i].hi <= query
              /\ subs[i].hi - subs[i].lo + 1 <= CHUNK
        /\ \A k \in 1..query :
              Cardinality({i \in DOMAIN subs : subs[i].lo <= k /\ k <= subs[i].hi}) = 1
        /\ \A i \in DOMAIN subs :
              Cardinality({j \in DOMAIN out : out[j] = i})
                  = IF subs[i].st = "joined" THEN 1 ELSE 0
        /\ Extend(out, subs) = Joined
        /\ mpc = "done" => \A i \in DOMAIN subs : subs[i].st = "joined"

\* 150 keys: two sub-requests of 100 and 50 ran side by side, the second was
\* joined first, and the result holds all 150 keys
C18_Witness ==
    /\ mpc = "done"
    /\ query = 150
    /\ Len(subs) = 2
    /\ subs[1].hi - subs[1].lo + 1 = 100
    /\ subs[2].hi - subs[2].lo + 1 = 50
    /\ out = <<2, 1>>
    /\ Extend(out, subs) = 1..150

\* C19: a request that receives a 401 is retried with a new token exactly
\* once: no request is sent more than twice, whatever the responses
C19_RetryOnce == \A r \in Reqs : tries[r] <= 2

(***************************************************************************)
(* Claims on the start signal, the Active Channel Set and the keepalive    *)
(***************************************************************************)
\* C22: until Client::connect is called the task stays at the start signal,
\* sends no event and writes nothing; the signal is sent at most once (once
\* sent or dropped it never changes, whatever is called later); the task
\* leaves the wait only for the top of the loop after Start, or by returning
\* when the Client was dropped before any connect, and then it has neither
\* connected nor sent an event.
C22_IdleUntilConnect ==
    [][/\ signal = "Unsent" =>
            /\ pc = "WaitSignal" /\ pc' = "WaitSignal"
            /\ eventQ = <<>> /\ eventQ' = <<>>
            /\ written' = <<>>
            /\ signal' \in {"Unsent", "Start", "Dropped"}
       /\ signal # "Unsent" => signal' = signal
       /\ (pc = "WaitSignal" /\ pc' # "WaitSignal") =>
            \/ signal = "Start" /\ pc' = "Drain"
            \/ signal = "Dropped" /\ pc' = "Done"
       /\ signal = "Dropped" =>
            /\ pc' \in {"WaitSignal", "Done"}
            /\ eventQ' = <<>>
            /\ written' = <<>>]_vars

C22_Witness ==
    /\ signal = "Dropped"
    /\ ~clientAlive
    /\ pc = "Done"
    /\ eventQ = <<>>
    /\ status = "NotConnected"

\* this step took the oldest command off the command queue
Dequeued == writeQ # <<>> /\ writeQ' = Tail(writeQ)

\* C23: the Active Channel Set changes only in a step that takes a Join or a
\* Part off the command queue, which inserts or removes that channel; taken
\* at the top of the loop, where no socket is open, the command updates the
\* set and nothing is written; a Send that is taken, and every step that
\* takes no command (connection failures, reconnects, inbound lines), leaves
\* the set as it was.
C23_SetFollowsJoinPart ==
    [][/\ active_channels' # active_channels =>
            /\ Dequeued
            /\ Head(writeQ).kind \in {"Join", "Part"}
       /\ Dequeued =>
            active_channels' =
                CASE Head(writeQ).kind = "Join" -> active_channels \cup {Head(writeQ).chan}
                  [] Head(writeQ).kind = "Part" -> active_channels \ {Head(writeQ).chan}
                  [] OTHER -> active_channels
       /\ (Dequeued /\ pc = "Drain") => written' = <<>> /\ pc' = "Drain"
       /\ (ConnEnded /\ ~Dequeued) => active_channels' = active_channels
       /\ inbound' # NoFrame => active_channels' = active_channels]_vars

\* a Join was applied before the first connection attempt
C23_Witness ==
    /\ pc = "Drain"
    /\ status = "NotConnected"
    /\ eventQ = <<>>
    /\ active_channels = {1}
    /\ writeQ = <<WPart(1)>>
    /\ written = <<>>

\* C24: the select never waits longer than one keepalive interval; when the
\* interval has passed with neither an inbound line nor a command and the
\* tracker has not timed out, the step that keeps the connection writes
\* exactly one PING whose token is the number of whole seconds since the
\* connection was established; a PING is written in no other step; the time
\* since the connection was established never decreases while the connection
\* lasts, so the tokens of successive pings never decrease.
C24_KeepalivePing ==
    [][/\ idle' <= ping_timeout
       /\ idle <= silent
       /\ (pc = "Loop" /\ pc' = "Loop" /\ idle >= ping_timeout /\ idle' = 0
               /\ silent' = silent /\ ~Dequeued) =>
            /\ ~probably_timed_out(silent)
            /\ written' = <<Ping(uptime \div 1000)>>
       /\ (\E i \in DOMAIN written' : written'[i].cmd = "PING") =>
            /\ pc = "Loop" /\ pc' = "Loop"
            /\ idle >= ping_timeout
            /\ ~probably_timed_out(silent)
            /\ written' = <<Ping(uptime \div 1000)>>
            /\ inbound' = NoFrame
            /\ writeQ' = writeQ
            /\ idle' = 0
       /\ (pc = "Loop" /\ pc' = "Loop") => uptime' >= uptime]_vars

\* the second ping of a connection: 60 seconds after it was established, 30
\* seconds after the last inbound line
C24_Witness ==
    /\ pc = "Loop"
    /\ written = <<Ping(60)>>
    /\ uptime = 60000
    /\ silent = 30
    /\ idle = 0

(***************************************************************************)
(* Claims on subscribing                                                   *)
(***************************************************************************)
\* C25: an Add action for k is put on the action channel only by a step in
\* which k was not in the cache before and is NotReady after (the first
\* get_or_subscribe for k); k never leaves the cache, so there is no second
\* first call; for a key in the cache get_or_subscribe calls no closure,
\* sends nothing, leaves the cache as it is and returns the cached stream if
\* the entry holds one.
C25_SubscribeOnce ==
    [][\A k \in Keys :
         /\ (Len(watching') > Len(watching) /\ watching'[Len(watching')] = Added(k)) =>
               /\ ~contains(map, k)
               /\ map'[k] = NotReady
               /\ watching' = Append(watching, Added(k))
         /\ contains(map, k) =>
               /\ contains(map', k)
               /\ ~get_or_else(map, k).called
               /\ get_or_else(map, k).map = map
               /\ subscribe(watching, get_or_else(map, k).called, k) = watching
               /\ cached(get_or_else(map, k).ret) =
                     (IF map[k] = Ready(Live) THEN Some(0, Live) ELSE None)
         /\ ~contains(map, k) =>
               /\ get_or_else(map, k).called
               /\ ~get_or_else(map, k).ret.some]_vars

\* the Add for key 1 was sent once and handled, its stream is cached, and
\* nothing is on the action channel
C25_Witness ==
    /\ map[1] = Ready(Live)
    /\ cached(get_or_else(map, 1).ret) = Some(0, Live)
    /\ 1 \in set
    /\ watching = <<>>
    /\ queue = <<>>

\* this step of the background loop received an action
Received == watching # <<>> /\ watching' = Tail(watching)

\* C26: handled by the background loop, an Add for a key that is in the
\* watch-set changes neither the watch-set nor the pending batch, and a
\* Remove for a key that is not in the watch-set changes neither; the
\* pending batch never holds a key twice.
C26_AddRemoveIdempotent ==
    [][/\ \A k \in Keys :
            /\ k \in set =>
                  recv_action(Added(k), set, queue) = [set |-> set, queue |-> queue]
            /\ k \notin set =>
                  recv_action(Removed(k), set, queue) = [set |-> set, queue |-> queue]
            /\ (Received /\ ((Head(watching) = Added(k) /\ k \in set)
                               \/ (Head(watching) = Removed(k) /\ k \notin set))) =>
                  /\ set' = set
                  /\ queue' = queue
                  /\ update' = update
                  /\ req' = req
       /\ \A i, j \in DOMAIN queue' : queue'[i] = queue'[j] => i = j]_vars

\* key 1 is watched and waits in the pending batch, and an action that added
\* nothing (a Remove for a key that is not watched) has been handled since
C26_Witness ==
    /\ set = {1}
    /\ queue = <<1>>
    /\ watching = <<>>
    /\ ~batch.clean
    /\ ~contains(map, 2)

(***************************************************************************)
(* Claims on UserMap                                                       *)
(***************************************************************************)
\* C28: for every login n, UserMap::get("#n") and UserMap::get("n") address
\* the entry "n" and no other: the call spawns a fetch, for "n", exactly when
\* that entry is not in the map, and otherwise returns what the entry holds
\* and changes nothing; so over any order and number of such calls at most
\* one fetch is spawned for the user; for these strings stripping twice
\* gives the same key as stripping once.
C28_UserMapNormalisesKey ==
    [][\A n \in Keys :
         /\ \A s \in {n, Hash(n)} :
               /\ strip_prefix(strip_prefix(s)) = strip_prefix(s)
               /\ CalledOn("get", s) =>
                     /\ \A k \in Strings \ {n} : map'[k] = map[k]
                     /\ contains(map', n)
                     /\ last'.spawned <=> ~contains(map, n)
                     /\ last'.spawned =>
                           /\ pending' = Append(pending, NewFut(nextId', n))
                           /\ map'[n] = NotReady
                     /\ ~last'.spawned =>
                           /\ pending' = pending
                           /\ map' = map
                           /\ last'.ret = as_option(map[n])
         /\ epochFetch'[n] <= 1]_vars

\* get("1") spawned the fetch, the user was stored, and get("#1") returned
\* it without a fetch; no entry "#1" was made
C28_Witness ==
    /\ last.op = "get"
    /\ last.key = Hash(1)
    /\ ~last.spawned
    /\ last.ret.some
    /\ is_ready(map[1])
    /\ ~contains(map, Hash(1))
    /\ epochFetch[1] = 1
    /\ nextId = 1

(***************************************************************************)
(* Claims on the application frame                                         *)
(***************************************************************************)
\* the events this step polled
Taken ==
    IF Len(eventQ') < Len(eventQ)
    THEN SubSeq(eventQ, 1, Len(eventQ) - Len(eventQ'))
    ELSE <<>>

IsPrivmsg(m) == m.kind = "Privmsg"

\* C21: a frame inserts one record for every Privmsg event it polls; no sent
\* message is stored twice; and once no echo is pending, every message sent
\* so far has been stored exactly once.
C21_EveryMessageStoredOnce ==
    [][/\ Taken # <<>> =>
            Len(SelectSeq(inserted', IsPrivmsg)) = Len(SelectSeq(Taken, IsPrivmsg))
       /\ \A n \in Sends : stored'[n] <= 1
       /\ app_last' = NoMsg => \A n \in 1..nsent' : stored'[n] = 1]_vars

\* C27: whenever the Client's status is Reconnecting, the last frame
\* displayed the reconnecting view.
C27_ReconnectingShown ==
    status = "Reconnecting" => shown = "reconnecting"

\* C29: the first UserState event polled while an echo is pending completes
\* it, whatever the channel of that event: the Finished message is the
\* pending message, with its channel, and carries the id of that event; it
\* is returned once and the slot is emptied.
C29_EchoCompletedByAnyUserState ==
    [][\A i \in DOMAIN Taken :
         (/\ Taken[i].kind = "UserState"
          /\ \A j \in 1..(i - 1) : Taken[j].kind # "UserState"
          /\ app_last # NoMsg
          /\ identity
          /\ Taken[i].id # NoId) =>
            /\ \E k \in DOMAIN inserted' :
                  inserted'[k] = [id |-> Taken[i].id, chan |-> app_last.chan,
                                  kind |-> "Finished", n |-> app_last.n,
                                  via |-> Taken[i].chan]
            /\ fin'[app_last.n] = [id |-> Taken[i].id, chan |-> app_last.chan, count |-> 1]
            /\ app_last' = NoMsg]_vars

\* the message sent on channel 1 was completed by a USERSTATE line of channel 2
C29_Witness ==
    /\ inserted = <<[id |-> 2, chan |-> 1, kind |-> "Finished", n |-> 1, via |-> 2]>>
    /\ fin[1] = [id |-> 2, chan |-> 1, count |-> 1]
    /\ app_last = NoMsg
    /\ ~fatal

\* C30: a frame that handles a Privmsg or Finished message for a channel that
\* is not in the list panics at that message: nothing after it is handled, no
\* view is displayed, and no later frame runs; a frame panics for no other
\* reason; and the panic is only reached when a chat message was polled for a
\* channel that was neither loaded at start-up nor acknowledged by a Join
\* event polled before it.
C30_UnknownChannelFatal ==
    [][/\ Taken # <<>> =>
            /\ fatal' <=> (inserted' # <<>> /\ inserted'[Len(inserted')].chan \notin channels')
            /\ \A k \in 1..(Len(inserted') - 1) : inserted'[k].chan \in channels'
       /\ (fatal' /\ ~fatal) => UNCHANGED <<screen, shown>>
       /\ fatal => /\ UNCHANGED <<appVars, status, identity, app_last, fin>>
                   /\ Taken = <<>>
       /\ fatal' => disorder']_vars

\* a PRIVMSG of channel 2 was polled before the Join of channel 2
C30_Witness ==
    /\ fatal
    /\ disorder
    /\ inserted = <<MsgPrivmsg(2)>>
    /\ channels = {1}
    /\ acks = {}
    /\ shown = "main"

\* C31: a frame that does not panic leaves no event in the queue: its poll
\* loop ends only when the queue is empty.
C31_FrameDrainsQueue ==
    [][(Taken # <<>> /\ ~fatal' /\ status' # "Panicked") => eventQ' = <<>>]_vars

\* C33: Client::poll never panics on a UserState event.
C33_UserStateNeverPanics ==
    status # "Panicked"

\* C32: the registration replay writes no JOIN for a channel whose JOIN was
\* already written on this connection, and a command line (JOIN, PART,
\* PRIVMSG of a dequeued command) is written only after Connected was sent
\* on this connection.
C32_OneJoinPerConnection ==
    [][/\ inbound' = Frame("GlobalUserState", 0, FALSE) =>
            \A i \in DOMAIN written' : written'[i].chan \notin joined
       /\ (inbound' = NoFrame /\ \E i \in DOMAIN written' :
                                    written'[i].cmd \in {"JOIN", "PART", "PRIVMSG"})
            => srv = "registered"]_vars

\* C34: a poll that takes the record of a finished fetch makes the key the
\* fetch was started for Ready.
C34_ReadyUnderRequestedKey ==
    [][\A i \in DOMAIN pending :
         (Called("poll") /\ pending[i].chan = "Sent" /\ pending[i].res.some)
            => is_ready(map'[pending[i].key])]_vars

\* the handle is in the outstanding set
Held(id) == \E i \in DOMAIN pending : pending[i].id = id

\* the handle is in the outstanding set and its task has ended
Ended(id) == \E i \in DOMAIN pending : pending[i].id = id /\ pending[i].chan # "Empty"

\* C35: with poll called again and again, every handle whose task has ended,
\* with or without a value, leaves the outstanding set.
C35_EndedHandlesRemoved ==
    \A id \in 1..MaxHandles : Ended(id) ~> ~Held(id)

\* C36: whenever a key is neither in the watch-set nor on its way there (no
\* Add for it is queued), get_or_subscribe for that key sends an Add; so a
\* key that was unsubscribed is watched again after the next
\* get_or_subscribe.
C36_ResubscribeSendsAdd ==
    \A k \in Keys :
        (k \notin set /\ \A i \in DOMAIN watching : watching[i] # Added(k))
            => subscribe(watching, get_or_else(map, k).called, k) = Append(watching, Added(k))

\* C37: every batched fetch asks only for keys that are in the watch-set when
\* it is issued, and every update it produces is for such a key.
C37_FetchOnlyWatched ==
    [][req' # req =>
          /\ req'.keys \subseteq set
          /\ \A i \in (Len(update) + 1)..Len(update') : update'[i].key \in set]_vars

\* C38: a request that was rejected with a token discards no other token:
\* when it takes the cached token away, the cache is empty or holds the
\* token the request was sent with.
C38_RefreshOnce ==
    [][\A r \in Reqs :
         (rpc[r] = "discard" /\ rpc'[r] = "token")
            => (bearer_token = NoToken \/ bearer_token = held[r])]_vars

\* C39: the events the connection task sends follow the status sequence: the
\* first event is Connecting; the very next event after a Reconnecting is
\* Connecting; Connected is only sent when the last status event was
\* Connecting or Connected, so after a Connecting with no Reconnecting in
\* between; and the status Client::status returns, once it left NotConnected,
\* never is NotConnected again.
C39_StatusSequence ==
    [][/\ \A j \in DOMAIN NewEvents(eventQ') :
            LET e == NewEvents(eventQ')[j]
                prev == LastStatus(rej.status, SubSeq(NewEvents(eventQ'), 1, j - 1))
            IN /\ prev \in {"None", "Reconnecting"} => e.kind = "Connecting"
               /\ e.kind = "Connected" => prev \in {"Connecting", "Connected"}
       /\ status # "NotConnected" => status' # "NotConnected"]_vars

C39_Witness ==
    /\ status = "Connected"
    /\ rej.status = "Connecting"
    /\ Len(eventQ) = 2
    /\ eventQ[1] = EvReconnecting(RECONNECT)
    /\ eventQ[2] = EvConnecting

Terminated == pc \in {"Done", "Panicked"}

\* C40: once the Client, and with it every sender of the write queue, is
\* dropped, the connection task eventually terminates, whichever state it is
\* in: waiting for the start signal, sleeping, draining, connecting,
\* registering or in the connected loop.
C40_DroppedClientTerminates ==
    ~clientAlive ~> Terminated

C40_Witness ==
    /\ ~clientAlive
    /\ pc = "Done"
    /\ signal = "Start"
    /\ active_channels # {}

====
